---- MODULE Spec2Model ----
(***************************************************************************)
(* A model of the MostaQL job notifier: the listing synchronizer           *)
(* (backend/services/scraper.py), the enrichment rate limiter, the         *)
(* notification task queues (backend/services/notification_queue.py) and   *)
(* the notifier (backend/services/notifier.py).                            *)
(*                                                                         *)
(* Each subsystem has its own specification (SpecSync, SpecQueue, ...).    *)
(* A nullable column or an Optional value is a sequence of length 0 or 1:  *)
(* None is <<>> and a present value v is <<v>>.                            *)
(***************************************************************************)
EXTENDS Integers, Sequences, FiniteSets, TLC

None == <<>>
Some(v) == <<v>>

Max(a, b) == IF a >= b THEN a ELSE b

Range(s) == {s[i] : i \in DOMAIN s}

\* All sequences over S of length at most n.
SeqsUpTo(S, n) == UNION {[1..k -> S] : k \in 0..n}

(***************************************************************************)
(* Bounds of the model.                                                    *)
(***************************************************************************)
\* Rows on one listing page.
MaxPage == 2
\* Polls and full syncs in one behaviour.
MaxRuns == 2
\* Tasks enqueued on one channel queue in one behaviour.
MaxTasks == 3
\* Worker threads one queue object creates in one behaviour.
MaxThreads == 2
\* Threads of the enrichment executor (the parameter max_workers).
MaxWorkers == 2
\* Seconds of one enrichment run that are looked at.
MaxTime == 8
\* Calls of the notifier's functions in one behaviour.
MaxSweeps == 3
\* Rows of table notifications in one behaviour of the notifier.
MaxNotifications == 4
\* Eligible email recipients of one batched dispatch.
MaxRecipients == 5
\* The largest maximum batch size looked at.
MaxBatch == 2

(***************************************************************************)
(* The listing source: categories and the rows of their listing pages.     *)
(***************************************************************************)
Categories == {1, 2}

\* The candidates a listing page can show: two with the same title under
\* different URLs, two with the same URL under different titles.
Candidates ==
    {[title |-> "t1", url |-> "u1"], [title |-> "t1", url |-> "u2"],
     [title |-> "t2", url |-> "u1"]}

\* A project row of the listing page: the text and the href of its h2 > a
\* link; a row whose link has no text is malformed.
Malformed == [title |-> "", url |-> "u2"]
Pages == SeqsUpTo(Candidates, MaxPage)

\* What the full fetch of the listing page can produce.
Responses ==
    [kind : {"ok"}, rows : Pages]
        \cup [kind : {"http429", "http_error", "timeout"}, rows : {<<>>}]

\* The same with listing pages of at most one row.
ShortResponses ==
    [kind : {"ok"}, rows : {<<>>} \cup {<<c>> : c \in Candidates}]
        \cup [kind : {"http429", "http_error", "timeout"}, rows : {<<>>}]

\* Whether the transaction of log_scrape_result, and that of
\* update_category_scrape_status, commits: either can fail, or none does.
DbOutcomes == BOOLEAN
DbCommits == {TRUE}

\* What the quick check's fetch can produce; only the first row is read.
ProbeResponses ==
    [kind : {"ok"}, rows : {<<>>, <<Malformed>>} \cup {<<c>> : c \in Candidates}]
        \cup [kind : {"timeout"}, rows : {<<>>}]

\* The scores a detail page can yield: none, or a percentage.
Rates == {None, Some(80)}

(***************************************************************************)
(* State of the listing synchronizer.                                      *)
(***************************************************************************)
VARIABLES
    jobs,            \* table jobs: sequence of rows, the id is the index
    scraper_logs,    \* table scraper_logs, append-only
    scrape_failures, \* categories.scrape_failures, by category id
    last_scraped_at, \* categories.last_scraped_at, by category id
    clock,           \* number of polls and syncs so far, the synchronizer's time
    listing_fetches, \* number of full listing fetches issued so far
    last_op          \* the most recent poll or sync, with what it was given

sync_vars == <<jobs, scraper_logs, scrape_failures, last_scraped_at, clock,
               listing_fetches, last_op>>

(***************************************************************************)
(* State of one channel task queue (BaseTaskQueue) and of the tables its   *)
(* worker writes.                                                          *)
(***************************************************************************)
VARIABLES
    notifications,    \* table notifications: sequence of rows, id = index
    last_notified_at, \* users.last_notified_at, by user id
    tasks,            \* every task passed to enqueue(), in call order
    queue,            \* self._queue: task numbers, 0 is the None sentinel
    worker_ref,       \* self._worker: 0 is None, else a thread number
    stop_event,       \* self._stop_event
    threads,          \* the worker threads created so far, by number
    ctl,              \* where the caller of start()/stop() stands
    handed            \* task numbers in the order _process_task was called

queue_vars == <<notifications, last_notified_at, tasks, queue, worker_ref,
                stop_event, threads, ctl, handed>>

(***************************************************************************)
(* State of one run of enrich_jobs_with_hiring_rates.                      *)
(***************************************************************************)
VARIABLES
    request_lock,    \* the shared cursor request_lock
    workers,         \* the executor's threads: position, job, attempt, wake time
    todo,            \* submitted job ids that no thread has taken yet
    results,         \* the dict results, by job id
    schedule,        \* the scheduled starts of the detail requests, in lock order
    enriching        \* the run has not committed yet

rate_vars == <<request_lock, workers, todo, results, schedule, enriching>>

(***************************************************************************)
(* State of the polling cycle run_scraper_job.                             *)
(***************************************************************************)
VARIABLES
    cycle_state,     \* idle, running, done, or aborted before the loop
    cycle_todo,      \* the category ids the loop has not reached yet
    cycle_polled     \* the categories handled in this cycle, in order

cycle_vars == <<cycle_state, cycle_todo, cycle_polled>>

(***************************************************************************)
(* State of the application around the email queue: the lifespan, the chat *)
(* queue object and a request handler that sends a chat message.           *)
(***************************************************************************)
VARIABLES
    app,              \* where lifespan stands: down, up, stopping, stopped
    chat_queue,       \* telegram_task_queue._queue
    chat_worker_ref,  \* telegram_task_queue._worker: 0 is None
    handler           \* broadcast_message: idle, or inside send_telegram_message

app_vars == <<app, chat_queue, chat_worker_ref, handler>>

(***************************************************************************)
(* The users table.                                                        *)
(***************************************************************************)
VARIABLES
    users            \* by user id: the columns of User that decide eligibility

user_vars == <<users>>

(***************************************************************************)
(* State of one batched email dispatch.                                    *)
(***************************************************************************)
VARIABLES
    batch_recipients, \* the eligible email recipients, in their order
    batch_size,       \* the maximum number of recipients of one task
    batch_todo,       \* the recipients no call of EmailChannel.send has covered
    batch_calls       \* the calls of EmailChannel.send made, with their results

batch_vars == <<batch_recipients, batch_size, batch_todo, batch_calls>>

(***************************************************************************)
(* State of two polling passes over the same category that overlap.        *)
(***************************************************************************)
VARIABLES
    overlap_page,    \* the rows of the listing page both passes fetch
    overlap          \* by pass: where it stands, its session, its new jobs

overlap_vars == <<overlap_page, overlap>>

(***************************************************************************)
(* State of two enrichment runs of the process that overlap in time.       *)
(***************************************************************************)
VARIABLES
    cursors,         \* by run: request_lock, a local of the call
    runners,         \* by run: where its thread stands, the jobs it has left
    starts           \* the scheduled starts of the detail requests, with the run

twin_vars == <<cursors, runners, starts>>

(***************************************************************************)
(* State of one pass of the polling cycle that found new jobs, from the    *)
(* enrichment to the call of process_new_jobs.                             *)
(***************************************************************************)
VARIABLES
    pass_pc,         \* where the pass stands
    pass_jobs,       \* new_jobs of the pass: Job objects detached from a session
    routed           \* None, or the objects handed to process_new_jobs

pass_vars == <<pass_pc, pass_jobs, routed>>

vars == <<sync_vars, queue_vars, rate_vars, cycle_vars, app_vars, user_vars, batch_vars, overlap_vars, twin_vars, pass_vars>>

(***************************************************************************)
(* The channel task queue.                                                 *)
(***************************************************************************)
Users == {1, 2}

\* The None that stop() puts on the queue.
Sentinel == 0

\* The tasks callers enqueue: notification_ids and user_ids of one
\* recipient, and of a batch of two.
TaskShapes ==
    {[notification_ids |-> {1}, user_ids |-> {1}],
     [notification_ids |-> {1, 2}, user_ids |-> {1, 2}]}

\* What _process_task can do: return True, return False, or raise.
TransportResults == {"true", "false", "raise"}

\* A pending row as created for a user and a job; sent_at has the column
\* default datetime.utcnow.
PendingNotification(user_id, job_id, now) ==
    [user_id |-> user_id, job_id |-> job_id, status |-> "pending",
     sent_at |-> Some(now), error_message |-> None]

\* A thread that has not been created yet.
Unborn == [pc |-> "unborn", task |-> 0]

\* Thread.is_alive()
IsAlive(th) == threads[th].pc \notin {"unborn", "dead"}

QueueInit ==
    /\ notifications = <<PendingNotification(1, 1, 0), PendingNotification(2, 1, 0)>>
    /\ last_notified_at = [u \in Users |-> None]
    /\ tasks = <<>>
    /\ queue = <<>>
    /\ worker_ref = 0
    /\ stop_event = FALSE
    /\ threads = [th \in 1..MaxThreads |-> Unborn]
    /\ ctl = "idle"
    /\ handed = <<>>

\* The queue and its tables while another subsystem is looked at.
QueueAtRest ==
    /\ notifications = <<>>
    /\ last_notified_at = [u \in Users |-> None]
    /\ tasks = <<>>
    /\ queue = <<>>
    /\ worker_ref = 0
    /\ stop_event = FALSE
    /\ threads = [th \in 1..MaxThreads |-> Unborn]
    /\ ctl = "idle"
    /\ handed = <<>>

\* enqueue(task)
Enqueue ==
    /\ Len(tasks) < MaxTasks
    /\ \E task \in TaskShapes :
          /\ tasks' = Append(tasks, task)
          /\ queue' = Append(queue, Len(tasks) + 1)
    /\ UNCHANGED <<notifications, last_notified_at, worker_ref, stop_event,
                   threads, ctl, handed>>

\* The condition on which start() returns at once.
StartReturnsEarly == worker_ref # 0 /\ IsAlive(worker_ref)

\* start(): unless the referenced worker is alive, clear the stop event and
\* start a new worker thread.
Start ==
    /\ ctl = "idle"
    /\ ~StartReturnsEarly
    /\ \E th \in 1..MaxThreads :
          /\ threads[th].pc = "unborn"
          /\ \A other \in 1..(th - 1) : threads[other].pc # "unborn"
          /\ threads' = [threads EXCEPT ![th].pc = "loop"]
          /\ worker_ref' = th
    /\ stop_event' = FALSE
    /\ UNCHANGED <<notifications, last_notified_at, tasks, queue, ctl, handed>>

\* stop(), up to the join: set the stop event and put the sentinel.
StopBegin ==
    /\ ctl = "idle"
    /\ worker_ref # 0
    /\ stop_event' = TRUE
    /\ queue' = Append(queue, Sentinel)
    /\ ctl' = "joining"
    /\ UNCHANGED <<notifications, last_notified_at, tasks, worker_ref, threads,
                   handed>>

\* join(timeout=5) can time out while the worker is inside _process_task
\* (smtp_timeout is 30 s, the Telegram timeout 10 s), and while it is blocked
\* in queue.get() on an empty queue.
JoinCanTimeOut(th) ==
    \/ threads[th].pc = "sending"
    \/ threads[th].pc = "get" /\ queue = <<>>

\* stop(), from the join on: the join returns because the worker exited or
\* because it timed out; then the reference is dropped.
StopJoin ==
    /\ ctl = "joining"
    /\ ~IsAlive(worker_ref) \/ JoinCanTimeOut(worker_ref)
    /\ worker_ref' = 0
    /\ ctl' = "idle"
    /\ UNCHANGED <<notifications, last_notified_at, tasks, queue, stop_event,
                   threads, handed>>

\* _run: the loop condition of a worker that has just started.
WorkerLoop(th) ==
    /\ threads[th].pc = "loop"
    /\ threads' = [threads EXCEPT ![th].pc = IF stop_event THEN "dead" ELSE "get"]
    /\ UNCHANGED <<notifications, last_notified_at, tasks, queue, worker_ref,
                   stop_event, ctl, handed>>

\* _run: queue.get(), blocking while the queue is empty; on a None,
\* task_done and the loop condition.
WorkerGet(th) ==
    /\ threads[th].pc = "get"
    /\ queue # <<>>
    /\ queue' = Tail(queue)
    /\ threads' = IF Head(queue) = Sentinel
                  THEN [threads EXCEPT
                           ![th].pc = IF stop_event THEN "dead" ELSE "get"]
                  ELSE [threads EXCEPT ![th].pc = "got", ![th].task = Head(queue)]
    /\ UNCHANGED <<notifications, last_notified_at, tasks, worker_ref,
                   stop_event, ctl, handed>>

\* _run: the call of _process_task, which hands the task to the transport.
WorkerCall(th) ==
    /\ threads[th].pc = "got"
    /\ handed' = Append(handed, threads[th].task)
    /\ threads' = [threads EXCEPT ![th].pc = "sending"]
    /\ UNCHANGED <<notifications, last_notified_at, tasks, queue, worker_ref,
                   stop_event, ctl>>

\* The arguments _run passes to _update_notification_status.
Success(result) == result = "true"

ErrorMessage(result) == IF result = "raise" THEN Some("str(exc)") ELSE None

\* The write to table notifications if it were kept when the transaction fails.
UpdateNotifications_NoRollback(rows, task, success, error_message, now, db_ok) ==
    [i \in DOMAIN rows |->
        IF i \in task.notification_ids
        THEN [rows[i] EXCEPT
                !.status = IF success THEN "sent" ELSE "failed",
                !.sent_at = IF success THEN Some(now) ELSE None,
                !.error_message = error_message]
        ELSE rows[i]]

\* The write to table notifications if a success left error_message alone.
UpdateNotifications_KeepError(rows, task, success, error_message, now, db_ok) ==
    IF ~db_ok THEN rows
    ELSE [i \in DOMAIN rows |->
            IF i \in task.notification_ids
            THEN [rows[i] EXCEPT
                    !.status = IF success THEN "sent" ELSE "failed",
                    !.sent_at = IF success THEN Some(now) ELSE None,
                    !.error_message = IF success THEN rows[i].error_message
                                      ELSE error_message]
            ELSE rows[i]]

\* _update_notification_status, table notifications: status, sent_at and
\* error_message of every row the task names; nothing when the transaction
\* fails and is rolled back.
UpdateNotifications(rows, task, success, error_message, now, db_ok) ==
    IF ~db_ok THEN rows
    ELSE [i \in DOMAIN rows |->
            IF i \in task.notification_ids
            THEN [rows[i] EXCEPT
                    !.status = IF success THEN "sent" ELSE "failed",
                    !.sent_at = IF success THEN Some(now) ELSE None,
                    !.error_message = error_message]
            ELSE rows[i]]

\* _update_notification_status, table users: last_notified_at of every user
\* the task names, on success only, in the same transaction.
UpdateUsers(last, task, success, now, db_ok) ==
    IF ~db_ok \/ ~success THEN last
    ELSE [u \in DOMAIN last |-> IF u \in task.user_ids THEN Some(now) ELSE last[u]]

\* The time of a write-back: one tick per task handed to the transport.
UtcNow == Len(handed)

\* The loop condition after a task if an exception of the transport ended the
\* thread.
AfterTask_RaiseEnds(result) ==
    IF stop_event \/ result = "raise" THEN "dead" ELSE "get"

\* The loop condition after a task, as _run evaluates it.
AfterTask(result) == IF stop_event THEN "dead" ELSE "get"

\* _run: _process_task returns or raises (result), then
\* _update_notification_status, whose transaction commits or not (db_ok),
\* and task_done, then the loop condition.
WorkerFinish(th, result, db_ok) ==
    /\ threads[th].pc = "sending"
    /\ LET task == tasks[threads[th].task]
           success == Success(result)
           error_message == ErrorMessage(result)
       IN  /\ notifications' = UpdateNotifications(notifications, task, success,
                                   error_message, UtcNow, db_ok)
           /\ last_notified_at' = UpdateUsers(last_notified_at, task, success,
                                      UtcNow, db_ok)
    /\ threads' = [threads EXCEPT
                      ![th].pc = AfterTask(result),
                      ![th].task = 0]
    /\ UNCHANGED <<tasks, queue, worker_ref, stop_event, ctl, handed>>

QueueNext ==
    \/ Enqueue /\ UNCHANGED <<sync_vars, rate_vars, cycle_vars, app_vars, user_vars, batch_vars, overlap_vars, twin_vars, pass_vars>>
    \/ Start /\ UNCHANGED <<sync_vars, rate_vars, cycle_vars, app_vars, user_vars, batch_vars, overlap_vars, twin_vars, pass_vars>>
    \/ StopBegin /\ UNCHANGED <<sync_vars, rate_vars, cycle_vars, app_vars, user_vars, batch_vars, overlap_vars, twin_vars, pass_vars>>
    \/ StopJoin /\ UNCHANGED <<sync_vars, rate_vars, cycle_vars, app_vars, user_vars, batch_vars, overlap_vars, twin_vars, pass_vars>>
    \/ \E th \in 1..MaxThreads : WorkerLoop(th) /\ UNCHANGED <<sync_vars, rate_vars, cycle_vars, app_vars, user_vars, batch_vars, overlap_vars, twin_vars, pass_vars>>
    \/ \E th \in 1..MaxThreads : WorkerGet(th) /\ UNCHANGED <<sync_vars, rate_vars, cycle_vars, app_vars, user_vars, batch_vars, overlap_vars, twin_vars, pass_vars>>
    \/ \E th \in 1..MaxThreads : WorkerCall(th) /\ UNCHANGED <<sync_vars, rate_vars, cycle_vars, app_vars, user_vars, batch_vars, overlap_vars, twin_vars, pass_vars>>
    \/ \E th \in 1..MaxThreads, result \in TransportResults, db_ok \in BOOLEAN :
          WorkerFinish(th, result, db_ok) /\ UNCHANGED <<sync_vars, rate_vars, cycle_vars, app_vars, user_vars, batch_vars, overlap_vars, twin_vars, pass_vars>>

(***************************************************************************)
(* The listing synchronizer.                                               *)
(***************************************************************************)
\* backend/utils/security.py hash_content: SHA-256 of the title; distinct
\* titles have distinct digests.
hash_content(title) == <<"sha256", title>>

\* scrape_category: rows without a title or without an href are skipped.
ParseRows(rows) ==
    SelectSeq(rows, LAMBDA r : r.title # "" /\ r.url # "")

\* quick_check_category: only the first row is looked at (limit=1); a failed
\* fetch, an empty page or a first row without title or href gives None.
QuickCheck(resp) ==
    IF resp.kind # "ok" \/ resp.rows = <<>> THEN None
    ELSE IF resp.rows[1].title = "" \/ resp.rows[1].url = "" THEN None
    ELSE Some(resp.rows[1])

\* The existence check if it compared the content hash only.
JobExistsInDb_HashOnly(db_jobs, job_data) ==
    \E i \in DOMAIN db_jobs :
        db_jobs[i].content_hash = hash_content(job_data.title)

\* _job_exists_in_db: a row with the same content hash or the same URL.
JobExistsInDb(db_jobs, job_data) ==
    \E i \in DOMAIN db_jobs :
        \/ db_jobs[i].content_hash = hash_content(job_data.title)
        \/ db_jobs[i].url = job_data.url

\* The candidates save_new_jobs adds to its session. The session does not
\* autoflush (SessionLocal, autoflush=False), so the existence query sees the
\* committed rows only, never the rows added earlier in the same batch.
StagedJobs(db_jobs, jobs_data) ==
    SelectSeq(jobs_data, LAMBDA c : ~JobExistsInDb(db_jobs, c))

\* UNIQUE(url) on table jobs: the flush at commit raises IntegrityError when
\* two staged rows carry the same URL, or one carries a committed row's URL.
ViolatesUniqueUrl(db_jobs, staged) ==
    \/ \E i, k \in DOMAIN staged : i # k /\ staged[i].url = staged[k].url
    \/ \E i \in DOMAIN staged, k \in DOMAIN db_jobs : staged[i].url = db_jobs[k].url

NewJobRow(c, category_id) ==
    [title |-> c.title, url |-> c.url, content_hash |-> hash_content(c.title),
     category_id |-> category_id, hiring_rate |-> None]

\* save_new_jobs without the existence check and without UNIQUE(url).
SaveNewJobs_NoDedup(db_jobs, category_id, jobs_data, commit_ok) ==
    IF jobs_data = <<>> \/ ~commit_ok
    THEN [jobs |-> db_jobs, new |-> <<>>, committed |-> jobs_data = <<>>]
    ELSE [jobs |-> db_jobs \o
               [i \in 1..Len(jobs_data) |-> NewJobRow(jobs_data[i], category_id)],
          new |-> [i \in 1..Len(jobs_data) |-> Len(db_jobs) + i],
          committed |-> TRUE]

\* save_new_jobs: the table after the call, the ids of the new rows, and
\* whether the batch was committed; a commit that fails rolls the whole
\* batch back and returns [].
SaveNewJobs(db_jobs, category_id, jobs_data, commit_ok) ==
    LET staged == StagedJobs(db_jobs, jobs_data)
        n == Len(db_jobs)
    IN  IF staged = <<>>
        THEN [jobs |-> db_jobs, new |-> <<>>, committed |-> TRUE]
        ELSE IF ViolatesUniqueUrl(db_jobs, staged) \/ ~commit_ok
        THEN [jobs |-> db_jobs, new |-> <<>>, committed |-> FALSE]
        ELSE [jobs |-> db_jobs \o
                   [i \in 1..Len(staged) |-> NewJobRow(staged[i], category_id)],
              new |-> [i \in 1..Len(staged) |-> n + i],
              committed |-> TRUE]

\* The enrichment if a rate obtained were written to every row of the table.
EnrichJobs_AllRows(db_jobs, job_ids, rates) ==
    [i \in DOMAIN db_jobs |->
        IF \E k \in DOMAIN job_ids : rates[k] # None
        THEN [db_jobs[i] EXCEPT !.hiring_rate =
                rates[CHOOSE k \in DOMAIN job_ids : rates[k] # None]]
        ELSE db_jobs[i]]

\* The enrichment if a job without a rate were given the rate 0.
EnrichJobs_ZeroForNone(db_jobs, job_ids, rates) ==
    [i \in DOMAIN db_jobs |->
        IF \E k \in DOMAIN job_ids : job_ids[k] = i
        THEN [db_jobs[i] EXCEPT !.hiring_rate =
                LET rate == rates[CHOOSE k \in DOMAIN job_ids : job_ids[k] = i]
                IN  IF rate = None THEN Some(0) ELSE rate]
        ELSE db_jobs[i]]

\* enrich_jobs_with_hiring_rates, as seen by the synchronizer: each new job
\* gets the rate its worker obtained; None leaves hiring_rate untouched (a
\* failed enrichment is the case where every rate is None).
EnrichJobs(db_jobs, job_ids, rates) ==
    [i \in DOMAIN db_jobs |->
        IF \E k \in DOMAIN job_ids : job_ids[k] = i /\ rates[k] # None
        THEN [db_jobs[i] EXCEPT !.hiring_rate =
                rates[CHOOSE k \in DOMAIN job_ids : job_ids[k] = i]]
        ELSE db_jobs[i]]

\* log_scrape_result if it wrote a row on the success path only.
LogScrapeResult_SuccessOnly(logs, category_id, status, jobs_found, log_ok) ==
    IF ~log_ok \/ status # "success" THEN logs
    ELSE Append(logs, [category_id |-> category_id, status |-> status,
                       jobs_found |-> jobs_found])

\* log_scrape_result: one appended row; none when the insert fails, which is
\* rolled back and logged, not raised.
LogScrapeResult(logs, category_id, status, jobs_found, log_ok) ==
    IF ~log_ok THEN logs
    ELSE Append(logs, [category_id |-> category_id, status |-> status,
                       jobs_found |-> jobs_found])

\* update_category_scrape_status if a success left the counter alone.
UpdateFailures_NoReset(failures, category_id, success, status_ok) ==
    IF ~status_ok THEN failures
    ELSE [failures EXCEPT ![category_id] = IF success THEN @ ELSE @ + 1]

\* update_category_scrape_status, the counter: success resets it, failure
\* adds 1; nothing when the update fails, which is rolled back and logged.
UpdateFailures(failures, category_id, success, status_ok) ==
    IF ~status_ok THEN failures
    ELSE [failures EXCEPT ![category_id] = IF success THEN 0 ELSE @ + 1]

\* update_category_scrape_status, the timestamp, in the same transaction.
UpdateLastScraped(last, category_id, now, status_ok) ==
    IF ~status_ok THEN last
    ELSE [last EXCEPT ![category_id] = Some(now)]

\* The outcome tag if every failed run were tagged "error".
FailureStatus_AllError(resp) == "error"

\* The outcome tag of a failed run: HTTP 429 is "blocked", the rest "error".
FailureStatus(resp) == IF resp.kind = "http429" THEN "blocked" ELSE "error"

\* The history record of a poll or sync: what it was given and what it did.
\* repeat says that it fully fetched the page that the op right before it
\* had fetched for the same category.
OpRecord(op, category_id, probe, fetched, rows, committed, new, log_ok, status_ok, answer) ==
    [seq |-> clock + 1, op |-> op, category_id |-> category_id, probe |-> probe,
     fetched |-> fetched, answer |-> answer, rows |-> rows, committed |-> committed, new |-> new,
     logged |-> log_ok, updated |-> status_ok,
     repeat |-> /\ fetched
                /\ last_op.fetched
                /\ last_op.category_id = category_id
                /\ last_op.rows = rows,
     after_commit |-> last_op.committed]

\* scrape_category_with_logging, the fetch succeeded: save_new_jobs,
\* enrichment of the new rows, the "success" log row, the counter reset.
FullSyncFetched(op, category_id, probe, rows, log_ok, status_ok) ==
    \E save_ok \in (IF StagedJobs(jobs, ParseRows(rows)) = <<>>
                    THEN {TRUE} ELSE BOOLEAN) :
        LET saved == SaveNewJobs(jobs, category_id, ParseRows(rows), save_ok)
            k == Len(saved.new)
        IN  /\ \E rates \in [1..k -> Rates] :
                  jobs' = EnrichJobs(saved.jobs, saved.new, rates)
            /\ scraper_logs' =
                  LogScrapeResult(scraper_logs, category_id, "success", k, log_ok)
            /\ scrape_failures' =
                  UpdateFailures(scrape_failures, category_id, TRUE, status_ok)
            /\ last_op' = OpRecord(op, category_id, probe, TRUE, rows,
                                   saved.committed, saved.new, log_ok, status_ok,
                                   "ok")

\* scrape_category_with_logging, the fetch raised: a "blocked" or "error"
\* log row with 0 jobs, the counter incremented.
FullSyncFailed(op, category_id, probe, resp, log_ok, status_ok) ==
    /\ jobs' = jobs
    /\ scraper_logs' =
          LogScrapeResult(scraper_logs, category_id, FailureStatus(resp), 0, log_ok)
    /\ scrape_failures' =
          UpdateFailures(scrape_failures, category_id, FALSE, status_ok)
    /\ last_op' = OpRecord(op, category_id, probe, FALSE, <<>>, FALSE, <<>>,
                           log_ok, status_ok, resp.kind)

\* scrape_category_with_logging for an existing category, the listing
\* answering with one of responses, its two status writes with one of dbs.
FullSync(op, category_id, probe, responses, dbs) ==
    /\ clock' = clock + 1
    /\ listing_fetches' = listing_fetches + 1
    /\ \E resp \in responses, log_ok \in dbs, status_ok \in dbs :
          /\ last_scraped_at' =
                UpdateLastScraped(last_scraped_at, category_id, clock + 1, status_ok)
          /\ IF resp.kind = "ok"
             THEN FullSyncFetched(op, category_id, probe, resp.rows, log_ok,
                                  status_ok)
             ELSE FullSyncFailed(op, category_id, probe, resp, log_ok, status_ok)

\* A direct full sync of one category (scrape_all_categories, the test API).
ScrapeCategoryWithLogging(responses, dbs) ==
    /\ clock < MaxRuns
    /\ \E c \in Categories : FullSync("sync", c, None, responses, dbs)

\* poll_category if only a known first job ended the poll.
PollOf_SyncOnNone(c, responses, dbs) ==
    \E quick \in ProbeResponses :
        LET first_job == QuickCheck(quick)
        IN  IF first_job # None /\ JobExistsInDb(jobs, first_job[1])
            THEN /\ clock' = clock + 1
                 /\ last_op' = OpRecord("poll", c, first_job, FALSE, <<>>,
                                        FALSE, <<>>, FALSE, FALSE, "none")
                 /\ UNCHANGED <<jobs, scraper_logs, scrape_failures,
                                last_scraped_at, listing_fetches>>
            ELSE FullSync("poll", c, first_job, responses, dbs)

\* poll_category: the quick check; no job found or a first job that is
\* already in the table ends the poll, an unknown first job starts the full
\* sync (which fetches the page again).
PollOf(c, responses, dbs) ==
    \E quick \in ProbeResponses :
        LET first_job == QuickCheck(quick)
        IN  IF first_job = None \/ JobExistsInDb(jobs, first_job[1])
            THEN /\ clock' = clock + 1
                 /\ last_op' = OpRecord("poll", c, first_job, FALSE, <<>>,
                                        FALSE, <<>>, FALSE, FALSE, "none")
                 /\ UNCHANGED <<jobs, scraper_logs, scrape_failures,
                                last_scraped_at, listing_fetches>>
            ELSE FullSync("poll", c, first_job, responses, dbs)

\* poll_category(category_id) for an existing category.
PollCategory(responses, dbs) ==
    /\ clock < MaxRuns
    /\ \E c \in Categories : PollOf(c, responses, dbs)

SyncInit ==
    /\ jobs = <<>>
    /\ scraper_logs = <<>>
    /\ scrape_failures = [c \in Categories |-> 0]
    /\ last_scraped_at = [c \in Categories |-> None]
    /\ clock = 0
    /\ listing_fetches = 0
    /\ last_op = [seq |-> 0, op |-> "none", category_id |-> 1, probe |-> None,
                  fetched |-> FALSE, rows |-> <<>>, committed |-> FALSE,
                  new |-> <<>>, logged |-> FALSE, updated |-> FALSE,
                  answer |-> "none", repeat |-> FALSE, after_commit |-> FALSE]

\* The synchronizer on listing pages of up to MaxPage rows, its status
\* writes committing.
SyncNext ==
    \/ ScrapeCategoryWithLogging(Responses, DbCommits)
          /\ UNCHANGED <<queue_vars, rate_vars, cycle_vars, app_vars, user_vars, batch_vars, overlap_vars, twin_vars, pass_vars>>
    \/ PollCategory(Responses, DbCommits)
          /\ UNCHANGED <<queue_vars, rate_vars, cycle_vars, app_vars, user_vars, batch_vars, overlap_vars, twin_vars, pass_vars>>

\* The synchronizer on short listing pages, with status writes that can fail.
RunsNext ==
    \/ ScrapeCategoryWithLogging(ShortResponses, DbOutcomes)
          /\ UNCHANGED <<queue_vars, rate_vars, cycle_vars, app_vars, user_vars, batch_vars, overlap_vars, twin_vars, pass_vars>>
    \/ PollCategory(ShortResponses, DbOutcomes)
          /\ UNCHANGED <<queue_vars, rate_vars, cycle_vars, app_vars, user_vars, batch_vars, overlap_vars, twin_vars, pass_vars>>

(***************************************************************************)
(* The enrichment rate limiter: fetch_rate_with_backoff on the threads of  *)
(* the executor. Time is in seconds.                                       *)
(***************************************************************************)
\* The parameter rate_limit_delay.
RateLimitDelay == 2

\* The parameter attempts of fetch_rate_with_backoff.
Attempts == 3

\* The rows of table jobs that an enrichment run or the notifier starts from.
StoredJobs ==
    <<NewJobRow([title |-> "t1", url |-> "u1"], 1),
      NewJobRow([title |-> "t2", url |-> "u2"], 2),
      NewJobRow([title |-> "t3", url |-> "u3"], 1)>>

\* What extract_hiring_rate can do: return a rate, return None because the
\* page shows none ("none"), return None because the request timed out, the
\* connection failed or the status was not 200 ("error": it catches every
\* such exception itself), or raise RateLimitError.
DetailOutcomes == {"rate", "none", "error", "http429"}

IdleWorker == [pc |-> "idle", job |-> 0, attempt |-> 0, wake |-> 0]

\* No enrichment run is under way.
RateAtRest ==
    /\ request_lock = 0
    /\ workers = [w \in 1..MaxWorkers |-> IdleWorker]
    /\ todo = <<>>
    /\ results = <<>>
    /\ schedule = <<>>
    /\ enriching = FALSE

\* The synchronizer has stored StoredJobs and is not looked at further.
SyncAtRest ==
    /\ jobs = StoredJobs
    /\ scraper_logs = <<>>
    /\ scrape_failures = [c \in Categories |-> 0]
    /\ last_scraped_at = [c \in Categories |-> None]
    /\ clock = 0
    /\ listing_fetches = 0
    /\ last_op = [seq |-> 0, op |-> "none", category_id |-> 1, probe |-> None,
                  fetched |-> FALSE, rows |-> <<>>, committed |-> FALSE,
                  new |-> <<>>, logged |-> FALSE, updated |-> FALSE,
                  answer |-> "none", repeat |-> FALSE, after_commit |-> FALSE]

\* enrich_jobs_with_hiring_rates, up to the submission of every job: the
\* cursor starts at the current time.
RateInit ==
    /\ SyncAtRest
    /\ request_lock = clock
    /\ workers = [w \in 1..MaxWorkers |-> IdleWorker]
    /\ todo = [k \in DOMAIN StoredJobs |-> k]
    /\ results = [k \in DOMAIN StoredJobs |-> None]
    /\ schedule = <<>>
    /\ enriching = TRUE

rate_frame == <<scraper_logs, scrape_failures, last_scraped_at, listing_fetches,
                last_op, queue_vars, cycle_vars, app_vars, user_vars, batch_vars, overlap_vars, twin_vars, pass_vars>>

\* A thread of the executor taking a job that stays submitted.
TakeJob_KeepsTodo(w) ==
    /\ enriching
    /\ workers[w].pc = "idle"
    /\ todo # <<>>
    /\ workers' = [workers EXCEPT ![w] = [pc |-> "lock", job |-> Head(todo),
                                          attempt |-> 0, wake |-> 0]]
    /\ todo' = IF Len(todo) > 1 THEN Tail(todo) ELSE todo
    /\ UNCHANGED <<jobs, clock, request_lock, results, schedule, enriching, rate_frame>>

\* A thread of the executor takes the next submitted job.
TakeJob(w) ==
    /\ enriching
    /\ workers[w].pc = "idle"
    /\ todo # <<>>
    /\ workers' = [workers EXCEPT ![w] = [pc |-> "lock", job |-> Head(todo),
                                          attempt |-> 0, wake |-> 0]]
    /\ todo' = Tail(todo)
    /\ UNCHANGED <<jobs, clock, request_lock, results, schedule, enriching, rate_frame>>

WaitTime(now, cursor) == RateLimitDelay - (now - cursor)

\* The cursor if a thread left the current time behind even when it sleeps.
NextCursor_Now(now, cursor) == now

\* The cursor a thread leaves behind in the locked section.
NextCursor(now, cursor) ==
    IF WaitTime(now, cursor) > 0 THEN now + WaitTime(now, cursor) ELSE now

\* The time at which the thread will call extract_hiring_rate at the
\* earliest: after its sleep, if it sleeps.
ScheduledStart(now, cursor) == now + Max(WaitTime(now, cursor), 0)

\* fetch_rate_with_backoff: the locked section.
EnterLock(w) ==
    /\ workers[w].pc = "lock"
    /\ request_lock' = NextCursor(clock, request_lock)
    /\ schedule' = Append(schedule, ScheduledStart(clock, request_lock))
    /\ workers' = [workers EXCEPT
                      ![w].pc = IF WaitTime(clock, request_lock) > 0
                                THEN "sleep" ELSE "request",
                      ![w].wake = ScheduledStart(clock, request_lock)]
    /\ UNCHANGED <<jobs, clock, todo, results, enriching, rate_frame>>

\* time.sleep(wait_time) and time.sleep(backoff) return.
SleepEnd(w) ==
    /\ workers[w].pc \in {"sleep", "backoff"}
    /\ clock >= workers[w].wake
    /\ workers' = [workers EXCEPT
                      ![w].pc = IF workers[w].pc = "sleep" THEN "request" ELSE "lock",
                      ![w].wake = 0]
    /\ UNCHANGED <<jobs, clock, request_lock, todo, results, schedule, enriching,
                   rate_frame>>

\* The sleep after a RateLimitError if it did not grow with the attempts.
Backoff_Flat(attempt) == 2

\* The sleep after a RateLimitError in attempt number attempt (from 0).
Backoff(attempt) == 2 ^ (attempt + 1)

\* extract_hiring_rate returns or raises RateLimitError.
DetailRequest(w, outcome) ==
    /\ workers[w].pc = "request"
    /\ IF outcome = "http429" /\ workers[w].attempt < Attempts - 1
       THEN /\ workers' = [workers EXCEPT
                              ![w].pc = "backoff",
                              ![w].attempt = workers[w].attempt + 1,
                              ![w].wake = clock + Backoff(workers[w].attempt)]
            /\ UNCHANGED results
       ELSE /\ workers' = [workers EXCEPT ![w] = IdleWorker]
            /\ results' = [results EXCEPT ![workers[w].job] =
                              IF outcome = "rate" THEN Some(80) ELSE None]
    /\ UNCHANGED <<jobs, clock, request_lock, todo, schedule, enriching, rate_frame>>

\* A second passes.
Tick ==
    /\ enriching
    /\ clock < MaxTime
    /\ clock' = clock + 1
    /\ UNCHANGED <<jobs, request_lock, workers, todo, results, schedule, enriching,
                   rate_frame>>

\* enrich_jobs_with_hiring_rates, after the executor: the rates are written
\* and committed.
EnrichCommit ==
    /\ enriching
    /\ todo = <<>>
    /\ \A w \in 1..MaxWorkers : workers[w].pc = "idle"
    /\ jobs' = EnrichJobs(jobs, [k \in DOMAIN jobs |-> k], results)
    /\ enriching' = FALSE
    /\ UNCHANGED <<clock, request_lock, workers, todo, results, schedule, rate_frame>>

RateNext ==
    \/ \E w \in 1..MaxWorkers : TakeJob(w)
    \/ \E w \in 1..MaxWorkers : EnterLock(w)
    \/ \E w \in 1..MaxWorkers : SleepEnd(w)
    \/ \E w \in 1..MaxWorkers, outcome \in DetailOutcomes : DetailRequest(w, outcome)
    \/ Tick
    \/ EnrichCommit

(***************************************************************************)
(* The notifier of backend/services/notifier.py: pending records are       *)
(* created, and sent by a sweep or right after their creation.             *)
(***************************************************************************)
\* Table user_categories: the users joined to each category,
\* as pairs of a user and a category.
UserCategory == {<<1, 1>>, <<2, 1>>, <<1, 2>>}

RECURSIVE Ascending(_)
\* The numbers of a set in ascending order, the order of the ids of a query.
Ascending(S) ==
    IF S = {} THEN <<>>
    ELSE LET m == CHOOSE x \in S : \A y \in S : x <= y
         IN  <<m>> \o Ascending(S \ {m})

\* A row of User: the columns a notification decision can read.
UserRow(verified, unsubscribed, receive_email, receive_telegram, telegram_chat_id, min_hiring_rate) ==
    [verified |-> verified, unsubscribed |-> unsubscribed,
     receive_email |-> receive_email, receive_telegram |-> receive_telegram,
     telegram_chat_id |-> telegram_chat_id, min_hiring_rate |-> min_hiring_rate]

\* Every user has signed up with the column defaults and followed the
\* verification link.
UsersAtRest ==
    users = [u \in Users |-> UserRow(TRUE, FALSE, TRUE, TRUE, None, None)]

\* get_users_for_category: the users joined to the category that are
\* verified and not unsubscribed, in the order of their ids.
GetUsersForCategory(category_id) ==
    Ascending({u \in Users : /\ <<u, category_id>> \in UserCategory
                             /\ users[u].verified
                             /\ ~users[u].unsubscribed})

\* What the sends of one call do, by recipient and category.
SendOutcomes == [UserCategory -> TransportResults]

\* What the storage does while one user's records are written back in a
\* sweep: the write commits; it fails and the records are marked failed; it
\* fails and marking them failed fails too, which ends the sweep.
SweepDbOutcomes == [Users -> {"ok", "marked_failed", "abort"}]

\* create_pending_notifications: one pending row per user, committed.
CreatePendingNotifications(rows, job_id, user_ids, now) ==
    rows \o [k \in DOMAIN user_ids |-> PendingNotification(user_ids[k], job_id, now)]

RECURSIVE CreateForJobs(_, _, _, _)
CreateForJobs(rows, job_ids, user_ids, now) ==
    IF job_ids = <<>> THEN rows
    ELSE CreateForJobs(CreatePendingNotifications(rows, Head(job_ids), user_ids, now),
                       Tail(job_ids), user_ids, now)

\* The jobs of a category, as a caller passes them to the notifier.
JobsOfCategory(category_id) ==
    {j \in DOMAIN jobs : jobs[j].category_id = category_id}

notifier_frame == <<jobs, scraper_logs, scrape_failures, last_scraped_at,
                    listing_fetches, last_op, tasks, queue, worker_ref, stop_event,
                    threads, ctl, handed, rate_vars, cycle_vars, app_vars, user_vars, batch_vars, overlap_vars, twin_vars, pass_vars>>

\* queue_job_notifications(new_jobs, category_id): pending records for every
\* job and every user of the category, committed job by job; a storage
\* failure keeps the records of the first committed jobs.
QueueJobNotifications(category_id, new_jobs, committed) ==
    LET found == GetUsersForCategory(category_id)
    IN  /\ clock < MaxSweeps
        /\ new_jobs # <<>>
        /\ found # <<>>
        /\ committed \in 0..Len(new_jobs)
        /\ Len(notifications) + Len(new_jobs) * Len(found) <= MaxNotifications
        /\ notifications' = CreateForJobs(notifications, SubSeq(new_jobs, 1, committed),
                                          found, clock + 1)
        /\ clock' = clock + 1
        /\ UNCHANGED <<last_notified_at, notifier_frame>>

\* get_pending_notifications_by_user: the ids of a user's pending records.
PendingOf(rows, user_id) ==
    {i \in DOMAIN rows : rows[i].user_id = user_id /\ rows[i].status = "pending"}

\* The users that have pending records, in the order of their first record.
UsersWithPending(rows) ==
    LET first(u) == CHOOSE i \in PendingOf(rows, u) : \A k \in PendingOf(rows, u) : i <= k
        firsts == {first(u) : u \in {v \in Users : PendingOf(rows, v) # {}}}
    IN  [k \in DOMAIN Ascending(firsts) |-> rows[Ascending(firsts)[k]].user_id]

MarkSent(rows, ids, now) ==
    [i \in DOMAIN rows |->
        IF i \in ids THEN [rows[i] EXCEPT !.status = "sent", !.sent_at = Some(now)]
        ELSE rows[i]]

MarkFailed(rows, ids) ==
    [i \in DOMAIN rows |->
        IF i \in ids
        THEN [rows[i] EXCEPT !.status = "failed", !.error_message = Some("str(e)")]
        ELSE rows[i]]

RECURSIVE SweepUsers(_, _, _, _, _)
\* send_pending_notifications, the loop over the users: whatever the sends
\* of a user did, the user's records are marked sent and the user is stamped;
\* when that write fails, the records are marked failed.
SweepUsers(rows, last, user_ids, dbs, now) ==
    IF user_ids = <<>> THEN [rows |-> rows, last |-> last]
    ELSE LET u == Head(user_ids)
             ids == PendingOf(rows, u)
         IN  CASE dbs[u] = "ok" ->
                    SweepUsers(MarkSent(rows, ids, now),
                               [last EXCEPT ![u] = Some(now)],
                               Tail(user_ids), dbs, now)
               [] dbs[u] = "marked_failed" ->
                    SweepUsers(MarkFailed(rows, ids), last, Tail(user_ids), dbs, now)
               [] OTHER -> [rows |-> rows, last |-> last]

\* send_pending_notifications(): one send per user and category (outcomes),
\* then the write-back per user (dbs).
SendPendingNotifications(outcomes, dbs) ==
    LET swept == SweepUsers(notifications, last_notified_at,
                            UsersWithPending(notifications), dbs, clock + 1)
    IN  /\ clock < MaxSweeps
        /\ outcomes \in SendOutcomes
        /\ UsersWithPending(notifications) # <<>>
        /\ notifications' = swept.rows
        /\ last_notified_at' = swept.last
        /\ clock' = clock + 1
        /\ UNCHANGED notifier_frame

RECURSIVE Distinct(_)
\* The values of a sequence in the order of their first occurrence.
Distinct(seq) ==
    IF seq = <<>> THEN <<>>
    ELSE <<Head(seq)>> \o Distinct(SelectSeq(Tail(seq), LAMBDA x : x # Head(seq)))

RECURSIVE ProcessCategories(_, _, _, _, _)
\* process_new_jobs, the loop over the categories: pending records for
\* every job and user, committed; then one send per user, and the user's
\* pending records of these jobs marked sent if the send returned True.
ProcessCategories(rows, cats, new_jobs, outcomes, now) ==
    IF cats = <<>> THEN rows
    ELSE LET c == Head(cats)
             category_jobs == SelectSeq(new_jobs, LAMBDA j : jobs[j].category_id = c)
             found == GetUsersForCategory(c)
             created == CreateForJobs(rows, category_jobs, found, now)
             marked == [i \in DOMAIN created |->
                          IF /\ created[i].status = "pending"
                             /\ created[i].job_id \in Range(category_jobs)
                             /\ created[i].user_id \in Range(found)
                             /\ outcomes[<<created[i].user_id, c>>] = "true"
                          THEN [created[i] EXCEPT !.status = "sent",
                                                  !.sent_at = Some(now)]
                          ELSE created[i]]
         IN  IF found = <<>>
             THEN ProcessCategories(rows, Tail(cats), new_jobs, outcomes, now)
             ELSE ProcessCategories(marked, Tail(cats), new_jobs, outcomes, now)

\* process_new_jobs(db): the recent jobs that have no record yet, category
\* by category; a storage failure ends it after the first done categories.
ProcessNewJobs(recent, outcomes, done) ==
    LET new_jobs == Ascending({j \in recent :
                        \A i \in DOMAIN notifications : notifications[i].job_id # j})
        cats == Distinct([k \in DOMAIN new_jobs |-> jobs[new_jobs[k]].category_id])
        after == ProcessCategories(notifications, SubSeq(cats, 1, done), new_jobs,
                                   outcomes, clock + 1)
    IN  /\ clock < MaxSweeps
        /\ new_jobs # <<>>
        /\ done \in 0..Len(cats)
        /\ Len(after) <= MaxNotifications
        /\ notifications' = after
        /\ clock' = clock + 1
        /\ UNCHANGED <<last_notified_at, notifier_frame>>

NotifierNext ==
    \/ \E category_id \in Categories :
          \E S \in SUBSET JobsOfCategory(category_id), committed \in 0..Cardinality(DOMAIN jobs) :
              QueueJobNotifications(category_id, Ascending(S), committed)
    \/ \E outcomes \in SendOutcomes, dbs \in SweepDbOutcomes :
          SendPendingNotifications(outcomes, dbs)
    \/ \E recent \in SUBSET DOMAIN jobs, outcomes \in SendOutcomes,
          done \in 0..Cardinality(Categories) :
              ProcessNewJobs(recent, outcomes, done)

(***************************************************************************)
(* The specifications.                                                     *)
(***************************************************************************)
\* The tasks a caller can build over the records that exist: some records
\* and the users they belong to.
TasksOver(rows) ==
    {[notification_ids |-> ids, user_ids |-> {rows[i].user_id : i \in ids}] :
        ids \in (SUBSET DOMAIN rows) \ {{}}}

\* A channel worker processes one dequeued task and writes the outcome back:
\* _run from the call of _process_task on, with _update_notification_status.
WriteBack(task, result, db_ok) ==
    /\ clock < MaxSweeps
    /\ task \in TasksOver(notifications)
    /\ notifications' = UpdateNotifications(notifications, task, Success(result),
                            ErrorMessage(result), clock + 1, db_ok)
    /\ last_notified_at' = UpdateUsers(last_notified_at, task, Success(result),
                               clock + 1, db_ok)
    /\ clock' = clock + 1
    /\ UNCHANGED notifier_frame

\* The sends of one call all do the same.
UniformOutcomes == {[p \in UserCategory |-> r] : r \in TransportResults}

\* The table notifications under everything that writes it: the notifier's
\* functions and the write-backs of the channel workers.
RecordsNext ==
    \/ \E category_id \in Categories :
          \E S \in SUBSET JobsOfCategory(category_id), committed \in 0..Cardinality(DOMAIN jobs) :
              QueueJobNotifications(category_id, Ascending(S), committed)
    \/ \E outcomes \in UniformOutcomes, dbs \in SweepDbOutcomes :
          SendPendingNotifications(outcomes, dbs)
    \/ \E recent \in SUBSET DOMAIN jobs, outcomes \in UniformOutcomes,
          done \in 0..Cardinality(Categories) :
              ProcessNewJobs(recent, outcomes, done)
    \/ \E task \in TasksOver(notifications), result \in TransportResults,
          db_ok \in BOOLEAN :
              WriteBack(task, result, db_ok)

(***************************************************************************)
(* The polling cycle run_scraper_job: the categories one after the other.  *)
(***************************************************************************)
cycle_frame == <<queue_vars, rate_vars, app_vars, user_vars, batch_vars, overlap_vars, twin_vars, pass_vars>>

\* run_scraper_job, up to the loop: the category ids are read; when that
\* query fails the outer handler logs and the cycle is over.
CycleStart(db_ok) ==
    /\ cycle_state # "running"
    /\ clock < MaxRuns
    /\ cycle_state' = IF db_ok THEN "running" ELSE "aborted"
    /\ cycle_todo' = IF db_ok THEN Ascending(Categories) ELSE <<>>
    /\ cycle_polled' = <<>>
    /\ UNCHANGED <<sync_vars, cycle_frame>>

\* What the call process_new_jobs(new_jobs, category_id) does: it passes two
\* arguments to process_new_jobs(db), which raises TypeError before the
\* router runs.
NotifyOutcomes == {"raise"}

\* The categories left if an exception of process_new_jobs ended the loop.
RestAfter_RaiseEnds(ids, notified) ==
    IF notified = "raise" THEN <<>> ELSE Tail(ids)

\* The categories left after one pass of the loop body: the handler inside
\* the loop catches every exception of the pass.
RestAfter(ids, notified) == Tail(ids)

\* run_scraper_job, one pass of the loop: poll_category, and
\* process_new_jobs if the poll returned new jobs.
CyclePoll(notify) ==
    /\ cycle_state = "running"
    /\ cycle_todo # <<>>
    /\ clock < MaxRuns
    /\ PollOf(Head(cycle_todo), ShortResponses, DbOutcomes)
    /\ LET notified == IF last_op'.new = <<>> THEN "none" ELSE notify
           rest == RestAfter(cycle_todo, notified)
       IN  /\ cycle_polled' = Append(cycle_polled,
                                 [category_id |-> Head(cycle_todo),
                                  notified |-> notified])
           /\ cycle_todo' = rest
           /\ cycle_state' = IF rest = <<>> THEN "done" ELSE "running"
    /\ UNCHANGED cycle_frame

CycleNext ==
    \/ \E db_ok \in BOOLEAN : CycleStart(db_ok)
    \/ \E notify \in NotifyOutcomes : CyclePoll(notify)

\* No polling cycle is under way.
CycleAtRest ==
    /\ cycle_state = "idle"
    /\ cycle_todo = <<>>
    /\ cycle_polled = <<>>

\* The application has not started; the module-level chat queue exists,
\* with no worker.
AppAtRest ==
    /\ app = "down"
    /\ chat_queue = <<>>
    /\ chat_worker_ref = 0
    /\ handler = "idle"

\* No batched dispatch is under way.
BatchAtRest ==
    /\ batch_recipients = <<>>
    /\ batch_size = 1
    /\ batch_todo = <<>>
    /\ batch_calls = <<>>

\* A polling pass that has not begun.
IdlePass == [pc |-> "idle", todo |-> <<>>, staged |-> <<>>, new |-> <<>>]

\* An enrichment run that has not been called.
IdleRun == [pc |-> "idle", left |-> 0, wake |-> 0]

\* No overlapping enrichment runs are looked at.
TwinAtRest ==
    /\ cursors = [r \in 1..2 |-> 0]
    /\ runners = [r \in 1..2 |-> IdleRun]
    /\ starts = <<>>

\* No pass of the polling cycle is followed step by step.
PassAtRest ==
    /\ pass_pc = "idle"
    /\ pass_jobs = <<>>
    /\ routed = None

\* No overlapping passes are looked at.
OverlapAtRest ==
    /\ overlap_page = <<>>
    /\ overlap = [p \in 1..2 |-> IdlePass]

InitSync ==
    SyncInit /\ QueueAtRest /\ RateAtRest /\ CycleAtRest /\ AppAtRest /\ UsersAtRest
        /\ BatchAtRest /\ OverlapAtRest /\ TwinAtRest /\ PassAtRest

SpecSync == InitSync /\ [][SyncNext]_vars

InitQueue ==
    QueueInit /\ SyncInit /\ RateAtRest /\ CycleAtRest /\ AppAtRest /\ UsersAtRest
        /\ BatchAtRest /\ OverlapAtRest /\ TwinAtRest /\ PassAtRest

SpecQueue == InitQueue /\ [][QueueNext]_vars

\* Any step of worker thread th.
WorkerStep(th) ==
    \/ WorkerLoop(th) /\ UNCHANGED <<sync_vars, rate_vars, cycle_vars, app_vars, user_vars, batch_vars, overlap_vars, twin_vars, pass_vars>>
    \/ WorkerGet(th) /\ UNCHANGED <<sync_vars, rate_vars, cycle_vars, app_vars, user_vars, batch_vars, overlap_vars, twin_vars, pass_vars>>
    \/ WorkerCall(th) /\ UNCHANGED <<sync_vars, rate_vars, cycle_vars, app_vars, user_vars, batch_vars, overlap_vars, twin_vars, pass_vars>>
    \/ \E result \in TransportResults, db_ok \in BOOLEAN :
          WorkerFinish(th, result, db_ok) /\ UNCHANGED <<sync_vars, rate_vars, cycle_vars, app_vars, user_vars, batch_vars, overlap_vars, twin_vars, pass_vars>>

\* The channel task queue with threads that keep being scheduled and
\* transport calls that return.
SpecQueueFair ==
    /\ SpecQueue
    /\ \A th \in 1..MaxThreads : WF_vars(WorkerStep(th))

InitRate ==
    RateInit /\ QueueAtRest /\ CycleAtRest /\ AppAtRest /\ UsersAtRest
        /\ BatchAtRest /\ OverlapAtRest /\ TwinAtRest /\ PassAtRest

SpecRate == InitRate /\ [][RateNext]_vars

InitNotifier ==
    SyncAtRest /\ QueueAtRest /\ RateAtRest /\ CycleAtRest /\ AppAtRest /\ UsersAtRest
        /\ BatchAtRest /\ OverlapAtRest /\ TwinAtRest /\ PassAtRest

SpecNotifier == InitNotifier /\ [][NotifierNext]_vars

(***************************************************************************)
(* The running application: lifespan, the two queue objects, the handler.  *)
(***************************************************************************)
app_frame == <<sync_vars, rate_vars, cycle_vars, user_vars, batch_vars, overlap_vars, twin_vars, pass_vars>>

\* lifespan, before the yield: email_task_queue.start(); no other queue is
\* started.
LifespanStartup ==
    /\ app = "down"
    /\ Start
    /\ app' = "up"
    /\ UNCHANGED <<chat_queue, chat_worker_ref, handler, app_frame>>

\* lifespan, after the yield: email_task_queue.stop(), up to the join.
LifespanShutdown ==
    /\ app = "up"
    /\ StopBegin
    /\ app' = "stopping"
    /\ UNCHANGED <<chat_queue, chat_worker_ref, handler, app_frame>>

\* lifespan, after the yield: email_task_queue.stop(), from the join on.
LifespanShutdownJoin ==
    /\ app = "stopping"
    /\ StopJoin
    /\ app' = "stopped"
    /\ UNCHANGED <<chat_queue, chat_worker_ref, handler, app_frame>>

\* email_task_queue.enqueue(task) in the running application.
EnqueueEmail ==
    /\ app = "up"
    /\ Enqueue
    /\ UNCHANGED <<app_vars, app_frame>>

\* telegram_task_queue.enqueue(task) in the running application.
EnqueueChat ==
    /\ app = "up"
    /\ Len(chat_queue) < MaxTasks
    /\ \E task \in TaskShapes : chat_queue' = Append(chat_queue, task)
    /\ UNCHANGED <<app, chat_worker_ref, handler, queue_vars, app_frame>>

\* The task broadcast_message enqueues: it names no notification and no user.
BroadcastTask == [notification_ids |-> {}, user_ids |-> {}]

\* broadcast_message for a recipient with a chat id and an email address, up
\* to the call of send_telegram_message, made by the handler itself.
BroadcastSend ==
    /\ app = "up"
    /\ handler = "idle"
    /\ Len(tasks) < MaxTasks
    /\ handler' = "telegram"
    /\ UNCHANGED <<app, chat_queue, chat_worker_ref, queue_vars, app_frame>>

\* broadcast_message, from the return of send_telegram_message on: the email
\* goes to the email queue.
BroadcastEnqueue ==
    /\ handler = "telegram"
    /\ handler' = "idle"
    /\ tasks' = Append(tasks, BroadcastTask)
    /\ queue' = Append(queue, Len(tasks) + 1)
    /\ UNCHANGED <<notifications, last_notified_at, worker_ref, stop_event,
                   threads, ctl, handed>>
    /\ UNCHANGED <<app, chat_queue, chat_worker_ref, app_frame>>

AppNext ==
    \/ LifespanStartup
    \/ LifespanShutdown
    \/ LifespanShutdownJoin
    \/ EnqueueEmail
    \/ EnqueueChat
    \/ BroadcastSend
    \/ BroadcastEnqueue
    \/ \E th \in 1..MaxThreads : WorkerStep(th)

SpecApp == InitQueue /\ [][AppNext]_vars

\* The running application with worker threads that keep being scheduled
\* and transport calls that return.
SpecAppFair ==
    /\ SpecApp
    /\ \A th \in 1..MaxThreads : WF_vars(WorkerStep(th))

SpecRuns == InitSync /\ [][RunsNext]_vars

SpecCycle == InitSync /\ [][CycleNext]_vars

SpecRecords == InitNotifier /\ [][RecordsNext]_vars

(***************************************************************************)
(* The handlers that write the users table, and the router beside them.    *)
(***************************************************************************)
\* What a handler of the users table leaves alone: everything but the table
\* and the time.
user_frame == <<jobs, scraper_logs, scrape_failures, last_scraped_at,
                listing_fetches, last_op, queue_vars, rate_vars, cycle_vars,
                app_vars, batch_vars, overlap_vars, twin_vars, pass_vars>>

\* The minimum hiring rates a subscription form can carry.
MinRates == {None, Some(70)}

\* verify_email: the link of a user that is not verified yet.
VerifyEmail(u) ==
    /\ clock < MaxSweeps
    /\ ~users[u].verified
    /\ users' = [users EXCEPT ![u].verified = TRUE]
    /\ clock' = clock + 1
    /\ UNCHANGED user_frame

\* unsubscribe_all if it also took the user's tasks off the email queue.
UnsubscribeAll_Cancels(u) ==
    /\ clock < MaxSweeps
    /\ ~users[u].unsubscribed
    /\ users' = [users EXCEPT ![u].unsubscribed = TRUE]
    /\ queue' = SelectSeq(queue, LAMBDA t : t = Sentinel \/ u \notin tasks[t].user_ids)
    /\ clock' = clock + 1
    /\ UNCHANGED <<jobs, scraper_logs, scrape_failures, last_scraped_at,
                   listing_fetches, last_op, notifications, last_notified_at,
                   tasks, worker_ref, stop_event, threads, ctl, handed,
                   rate_vars, cycle_vars, app_vars, batch_vars, overlap_vars, twin_vars, pass_vars>>

\* unsubscribe_all: sets the flag of a subscribed user and nothing else.
UnsubscribeAll(u) ==
    /\ clock < MaxSweeps
    /\ ~users[u].unsubscribed
    /\ users' = [users EXCEPT ![u].unsubscribed = TRUE]
    /\ clock' = clock + 1
    /\ UNCHANGED user_frame

\* update_preferences: refused for an unsubscribed user and when no channel
\* is left.
UpdatePreferences(u, receive_email, receive_telegram) ==
    /\ clock < MaxSweeps
    /\ ~users[u].unsubscribed
    /\ receive_email \/ receive_telegram
    /\ users' = [users EXCEPT ![u].receive_email = receive_email,
                              ![u].receive_telegram = receive_telegram]
    /\ clock' = clock + 1
    /\ UNCHANGED user_frame

\* SubscriptionService.subscribe for an address that is registered, with
\* the categories it has: the preferences are replaced and the user is
\* subscribed again.
Subscribe(u, receive_email, receive_telegram, min_hiring_rate) ==
    /\ clock < MaxSweeps
    /\ users' = [users EXCEPT ![u].receive_email = receive_email,
                              ![u].receive_telegram = receive_telegram,
                              ![u].min_hiring_rate = min_hiring_rate,
                              ![u].unsubscribed = FALSE]
    /\ clock' = clock + 1
    /\ UNCHANGED user_frame

\* The hiring rates enrichment has stored for StoredJobs.
RoutedRates == <<None, Some(80), Some(60)>>

\* Table jobs after enrichment.
RoutedJobs ==
    [k \in DOMAIN StoredJobs |-> [StoredJobs[k] EXCEPT !.hiring_rate = RoutedRates[k]]]

\* User 1 has signed up and verified; user 2 has signed up.
UsersSignedUp ==
    users = [u \in Users |-> UserRow(u = 1, FALSE, TRUE, TRUE, None, None)]

\* The synchronizer has stored and enriched its jobs and is not looked at
\* further.
RouterAtRest ==
    /\ jobs = RoutedJobs
    /\ scraper_logs = <<>>
    /\ scrape_failures = [c \in Categories |-> 0]
    /\ last_scraped_at = [c \in Categories |-> None]
    /\ clock = 0
    /\ listing_fetches = 0
    /\ last_op = [seq |-> 0, op |-> "none", category_id |-> 1, probe |-> None,
                  fetched |-> FALSE, rows |-> <<>>, committed |-> FALSE,
                  new |-> <<>>, logged |-> FALSE, updated |-> FALSE,
                  answer |-> "none", repeat |-> FALSE, after_commit |-> FALSE]

InitRouter ==
    RouterAtRest /\ QueueAtRest /\ RateAtRest /\ CycleAtRest /\ AppAtRest /\ UsersSignedUp
        /\ BatchAtRest /\ OverlapAtRest /\ TwinAtRest /\ PassAtRest

RouterNext ==
    \/ \E category_id \in Categories :
          \E S \in SUBSET JobsOfCategory(category_id), committed \in 0..Cardinality(DOMAIN jobs) :
              QueueJobNotifications(category_id, Ascending(S), committed)
    \/ \E recent \in SUBSET DOMAIN jobs, outcomes \in UniformOutcomes,
          done \in 0..Cardinality(Categories) :
              ProcessNewJobs(recent, outcomes, done)
    \/ \E u \in Users : VerifyEmail(u)
    \/ \E u \in Users : UnsubscribeAll(u)
    \/ \E u \in Users, receive_email \in BOOLEAN : UpdatePreferences(u, receive_email, TRUE)
    \/ \E u \in Users, receive_email \in BOOLEAN, min_hiring_rate \in MinRates :
          Subscribe(u, receive_email, TRUE, min_hiring_rate)

SpecRouter == InitRouter /\ [][RouterNext]_vars

(***************************************************************************)
(* Batched email dispatch through EmailChannel.send.                       *)
(***************************************************************************)
\* The fields of BaseTask and EmailTask that have no default.
EmailTaskRequired ==
    {"notification_ids", "user_ids", "email", "category_name", "jobs"}

\* EmailTask(**kwargs): the task, or None for the TypeError the dataclass
\* raises when a field without default is not given.
EmailTask(kwargs) ==
    IF EmailTaskRequired \subseteq DOMAIN kwargs THEN Some(kwargs) ELSE None

\* What a caller can hand to EmailChannel.send as content for the recipients
\* bcc: something that is no dict, a dict without jobs, a dict without
\* notification ids, a complete dict.
Contents(bcc) ==
    {[dict |-> FALSE, jobs |-> <<>>, notification_ids |-> <<>>, bcc |-> None],
     [dict |-> TRUE, jobs |-> <<>>, notification_ids |-> bcc, bcc |-> Some(bcc)],
     [dict |-> TRUE, jobs |-> <<"job">>, notification_ids |-> <<>>, bcc |-> Some(bcc)],
     [dict |-> TRUE, jobs |-> <<"job">>, notification_ids |-> bcc, bcc |-> Some(bcc)]}

\* EmailChannel.send(recipient, subject, content): what it returns, the task
\* it enqueues if any, and the line it logs.
EmailChannelSend(recipient, subject, content) ==
    IF ~content.dict
    THEN [ok |-> FALSE, task |-> None, log |-> "expects dict content"]
    ELSE IF content.jobs = <<>> \/ content.notification_ids = <<>>
    THEN [ok |-> FALSE, task |-> None, log |-> "Missing jobs or notification_ids"]
    ELSE LET task == EmailTask([notification_ids |-> content.notification_ids,
                                email |-> recipient,
                                category_name |-> subject,
                                jobs |-> content.jobs,
                                unsubscribe_token |-> None,
                                bcc |-> content.bcc])
         IN  IF task = None
             THEN [ok |-> FALSE, task |-> None, log |-> "Failed to enqueue email task"]
             ELSE [ok |-> TRUE, task |-> task, log |-> "none"]

\* The recipients of the next task: the first b of those left.
NextBatch(recipients, b) ==
    SubSeq(recipients, 1, IF Len(recipients) < b THEN Len(recipients) ELSE b)

\* One task of a batched dispatch: the next recipients go to
\* EmailChannel.send as bcc of one message.
BatchSend ==
    /\ batch_todo # <<>>
    /\ LET bcc == NextBatch(batch_todo, batch_size)
       IN  \E content \in Contents(bcc) :
              LET sent == EmailChannelSend("undisclosed-recipients:;", "category",
                                           content)
              IN  /\ tasks' = IF sent.task = None THEN tasks
                               ELSE Append(tasks, sent.task[1])
                  /\ queue' = IF sent.task = None THEN queue
                               ELSE Append(queue, Len(tasks) + 1)
                  /\ batch_calls' = Append(batch_calls,
                                          [bcc |-> bcc, content |-> content,
                                           ok |-> sent.ok, log |-> sent.log])
                  /\ batch_todo' = SubSeq(batch_todo, Len(bcc) + 1, Len(batch_todo))
    /\ UNCHANGED <<batch_recipients, batch_size, notifications, last_notified_at,
                   worker_ref, stop_event, threads, ctl, handed, sync_vars,
                   rate_vars, cycle_vars, app_vars, user_vars, overlap_vars, twin_vars, pass_vars>>

\* A dispatch for up to MaxRecipients recipients with a maximum batch size
\* of up to MaxBatch is about to begin.
BatchInit ==
    \E n \in 0..MaxRecipients, b \in 1..MaxBatch :
        /\ batch_recipients = [k \in 1..n |-> k]
        /\ batch_size = b
        /\ batch_todo = [k \in 1..n |-> k]
        /\ batch_calls = <<>>

InitBatch ==
    SyncAtRest /\ QueueAtRest /\ RateAtRest /\ CycleAtRest /\ AppAtRest /\ UsersAtRest
        /\ BatchInit /\ OverlapAtRest /\ TwinAtRest /\ PassAtRest

BatchNext == BatchSend

SpecBatch == InitBatch /\ [][BatchNext]_vars

(***************************************************************************)
(* Two passes of run_scraper_job over the same category that overlap, each *)
(* with its own session.                                                   *)
(***************************************************************************)
Passes == {1, 2}

\* The category both passes handle.
OverlapCategory == 1

\* The listing pages looked at: at least one row, the rows pairwise
\* different in title and in URL.
OverlapPages ==
    {rows \in Pages :
        /\ rows # <<>>
        /\ \A i, k \in DOMAIN rows :
              i # k => rows[i].title # rows[k].title /\ rows[i].url # rows[k].url}

overlap_frame == <<queue_vars, rate_vars, cycle_vars, app_vars, user_vars,
                   batch_vars, overlap_page, twin_vars, pass_vars>>

\* scrape_category: the pass fetches and parses the listing page.
OverlapFetch(p) ==
    /\ overlap[p].pc = "idle"
    /\ overlap' = [overlap EXCEPT ![p].pc = "checking",
                                  ![p].todo = ParseRows(overlap_page)]
    /\ listing_fetches' = listing_fetches + 1
    /\ UNCHANGED <<jobs, scraper_logs, scrape_failures, last_scraped_at, clock,
                   last_op, overlap_frame>>

\* save_new_jobs, one turn of its loop: the existence query reads the
\* committed rows; an unknown candidate is added to the session.
OverlapCheck(p) ==
    /\ overlap[p].pc = "checking"
    /\ overlap[p].todo # <<>>
    /\ overlap' = [overlap EXCEPT
                      ![p].todo = Tail(@),
                      ![p].staged = IF JobExistsInDb(jobs, Head(overlap[p].todo))
                                    THEN @ ELSE Append(@, Head(overlap[p].todo))]
    /\ UNCHANGED <<sync_vars, overlap_frame>>

\* save_new_jobs, the commit of what the session holds: the table after it
\* and the ids of the new rows; a commit that fails, on UNIQUE(url) or in
\* the storage, rolls the batch back and returns [].
CommitStaged(db_jobs, category_id, staged, commit_ok) ==
    IF staged = <<>>
    THEN [jobs |-> db_jobs, new |-> <<>>]
    ELSE IF ViolatesUniqueUrl(db_jobs, staged) \/ ~commit_ok
    THEN [jobs |-> db_jobs, new |-> <<>>]
    ELSE [jobs |-> db_jobs \o
               [i \in 1..Len(staged) |-> NewJobRow(staged[i], category_id)],
          new |-> [i \in 1..Len(staged) |-> Len(db_jobs) + i]]

\* save_new_jobs, after the loop: db.commit().
OverlapCommit(p, commit_ok) ==
    /\ overlap[p].pc = "checking"
    /\ overlap[p].todo = <<>>
    /\ LET saved == CommitStaged(jobs, OverlapCategory, overlap[p].staged, commit_ok)
       IN  /\ jobs' = saved.jobs
           /\ overlap' = [overlap EXCEPT ![p].pc = "saved", ![p].staged = <<>>,
                                         ![p].new = saved.new]
    /\ UNCHANGED <<scraper_logs, scrape_failures, last_scraped_at, clock,
                   listing_fetches, last_op, overlap_frame>>

\* The rest of the pass: enrichment of the new rows, the "success" log row
\* and the status update, then process_new_jobs(new_jobs, category_id) if
\* there are new jobs, whose TypeError the loop's handler logs.
OverlapFinish(p) ==
    /\ overlap[p].pc = "saved"
    /\ \E rates \in [1..Len(overlap[p].new) -> Rates] :
          jobs' = EnrichJobs(jobs, overlap[p].new, rates)
    /\ scraper_logs' = LogScrapeResult(scraper_logs, OverlapCategory, "success",
                                       Len(overlap[p].new), TRUE)
    /\ scrape_failures' = UpdateFailures(scrape_failures, OverlapCategory, TRUE, TRUE)
    /\ last_scraped_at' = UpdateLastScraped(last_scraped_at, OverlapCategory,
                                            clock + 1, TRUE)
    /\ clock' = clock + 1
    /\ \E notify \in NotifyOutcomes :
          /\ overlap[p].new # <<>> => notify = "raise"
          /\ overlap' = [overlap EXCEPT ![p].pc = "done"]
    /\ UNCHANGED <<listing_fetches, last_op, overlap_frame>>

\* Both passes are about to fetch the same page; no job is stored.
OverlapInit ==
    /\ overlap_page \in OverlapPages
    /\ overlap = [p \in Passes |-> IdlePass]

InitOverlap ==
    SyncInit /\ QueueAtRest /\ RateAtRest /\ CycleAtRest /\ AppAtRest /\ UsersAtRest
        /\ BatchAtRest /\ OverlapInit /\ TwinAtRest /\ PassAtRest

OverlapNext ==
    \/ \E p \in Passes : OverlapFetch(p)
    \/ \E p \in Passes : OverlapCheck(p)
    \/ \E p \in Passes, commit_ok \in DbCommits : OverlapCommit(p, commit_ok)
    \/ \E p \in Passes : OverlapFinish(p)

SpecOverlap == InitOverlap /\ [][OverlapNext]_vars

\* The running application with its email queue, and users that opt out
\* while tasks are queued.
OptOutNext ==
    \/ LifespanStartup
    \/ EnqueueEmail
    \/ \E th \in 1..MaxThreads : WorkerStep(th)
    \/ \E u \in Users : UnsubscribeAll(u)
    \/ \E u \in Users, receive_email, receive_telegram \in BOOLEAN :
          UpdatePreferences(u, receive_email, receive_telegram)

SpecOptOut == InitQueue /\ [][OptOutNext]_vars

\* The same with worker threads that keep being scheduled and transport
\* calls that return.
SpecOptOutFair ==
    /\ SpecOptOut
    /\ \A th \in 1..MaxThreads : WF_vars(WorkerStep(th))

(***************************************************************************)
(* Properties of the listing synchronizer.                                 *)
(***************************************************************************)

\* A step of SpecSync that is a poll or a sync.
SyncStep == last_op'.seq # last_op.seq

\* C1: no two persisted jobs share a URL and no two share a content hash.
\* save_new_jobs breaks the second half: two rows of one page with the same
\* title and different URLs are both inserted.
C1_UniqueUrlAndHash ==
    \A i, k \in DOMAIN jobs :
        i # k => /\ jobs[i].url # jobs[k].url
                 /\ jobs[i].content_hash # jobs[k].content_hash

\* The second of two consecutive full syncs of one category that fetched
\* the same page.
SecondRunOnSamePage ==
    /\ SyncStep
    /\ last_op.fetched
    /\ last_op'.fetched
    /\ last_op'.category_id = last_op.category_id
    /\ last_op'.rows = last_op.rows

ProbeKnown(probe) ==
    \E i \in DOMAIN jobs :
        \/ jobs[i].content_hash = hash_content(probe.title)
        \/ jobs[i].url = probe.url

\* C8: a poll whose probed first job matches a persisted job by hash or by
\* URL makes no full listing fetch and creates no job.
C8_QuickCheckShortCircuit ==
    [][(/\ SyncStep
        /\ last_op'.op = "poll"
        /\ last_op'.probe # None
        /\ ProbeKnown(last_op'.probe[1]))
       => (jobs' = jobs /\ listing_fetches' = listing_fetches)]_vars

\* A poll that stopped at a probe known by its URL only, under a new title.
C8_Witness ==
    /\ last_op.op = "poll"
    /\ last_op.probe # None
    /\ ~last_op.fetched
    /\ \E i \in DOMAIN jobs :
          /\ jobs[i].url = last_op.probe[1].url
          /\ jobs[i].content_hash # hash_content(last_op.probe[1].title)
    /\ \A i \in DOMAIN jobs :
          jobs[i].content_hash # hash_content(last_op.probe[1].title)

(***************************************************************************)
(* Properties of the channel task queue.                                   *)
(***************************************************************************)

\* C2: every change of a notification's status leads from pending to sent
\* or from pending to failed.
C2_StatusOnlyLeavesPending ==
    [][\A i \in DOMAIN notifications :
          notifications'[i].status # notifications[i].status
          => (/\ notifications[i].status = "pending"
              /\ notifications'[i].status \in {"sent", "failed"})]_vars

\* C5: the tasks are handed to the transport in the order they were
\* enqueued: the k-th task handed over is the k-th task enqueued.
C5_HandedInEnqueueOrder == \A k \in DOMAIN handed : handed[k] = k

\* The worker threads that are draining the queue: past the first loop
\* condition and not exited.
Draining == {th \in 1..MaxThreads : threads[th].pc \in {"get", "got", "sending"}}

\* C6: at most one worker thread is draining the queue at any time.
C6_AtMostOneWorker == Cardinality(Draining) <= 1

\* The write-back of the task that worker th holds was applied as a success
\* at the time of the step.
AppliedAsSent(th) ==
    LET task == tasks[threads[th].task]
    IN  /\ \A i \in task.notification_ids :
              /\ notifications'[i].status = "sent"
              /\ notifications'[i].sent_at = Some(UtcNow)
        /\ \A u \in task.user_ids : last_notified_at'[u] = Some(UtcNow)

\* C9: when the send succeeded, the write-back either marks every record of
\* the task sent, with the time of the write-back, and stamps every
\* recipient of the task with it, or changes no record and no recipient.
C9_WriteBackAllOrNothing ==
    [][\A th \in 1..MaxThreads, db_ok \in BOOLEAN :
          WorkerFinish(th, "true", db_ok)
          => \/ AppliedAsSent(th)
             \/ (notifications' = notifications
                 /\ last_notified_at' = last_notified_at)]_vars

\* A batch of two records was written back as sent in one piece.
C9_Witness ==
    /\ \A i \in {1, 2} : notifications[i].status = "sent"
    /\ notifications[1].sent_at # Some(0)
    /\ notifications[2].sent_at = notifications[1].sent_at
    /\ \A u \in {1, 2} : last_notified_at[u] = notifications[1].sent_at

\* C10: when the transport raised or reported failure and the write-back
\* was committed, every record of the task is failed, carries an error
\* detail and no sent time, and no recipient's last-notified time changed.
C10_FailureRecordsError ==
    [][\A th \in 1..MaxThreads, result \in {"false", "raise"} :
          WorkerFinish(th, result, TRUE)
          => /\ \A i \in tasks[threads[th].task].notification_ids :
                   /\ notifications'[i].status = "failed"
                   /\ notifications'[i].error_message # None
                   /\ notifications'[i].sent_at = None
             /\ last_notified_at' = last_notified_at]_vars

\* C12: every enqueued task is taken from the queue and handed to the
\* transport at most once, no step of a worker puts a task on the queue, and
\* a record that a failed task left failed stays failed.
C12_NoRequeueAndStaysFailed ==
    [][/\ \A k1, k2 \in DOMAIN handed' : handed'[k1] = handed'[k2] => k1 = k2
       /\ (\E th \in 1..MaxThreads : threads'[th] # threads[th])
             => Len(queue') <= Len(queue)
       /\ \A i \in DOMAIN notifications :
             notifications[i].status = "failed" => notifications'[i].status = "failed"]_vars

\* C13: once stop() has set the stop event and put the sentinel for the
\* worker it refers to, that worker eventually exits its loop, and it exits
\* only at the loop condition, never with a task in hand.
C13_StopEndsWorker ==
    /\ \A th \in 1..MaxThreads :
          (ctl = "joining" /\ worker_ref = th) ~> (threads[th].pc = "dead")
    /\ [][\A th \in 1..MaxThreads :
             (threads[th].pc \in {"got", "sending"} /\ threads'[th].pc = "dead")
             => \E result \in TransportResults, db_ok \in BOOLEAN :
                   WorkerFinish(th, result, db_ok)]_vars

\* C14: a task whose transport call raises or returns failure does not end
\* the worker, which goes on to the next queue.get() unless stop() has been
\* called; the write-back of the failure changes no record but those the
\* task names, and no user.
C14_FailureIsIsolated ==
    [][\A th \in 1..MaxThreads, result \in {"false", "raise"}, db_ok \in BOOLEAN :
          WorkerFinish(th, result, db_ok)
          => /\ threads'[th].pc = IF stop_event THEN "dead" ELSE "get"
             /\ \A i \in DOMAIN notifications :
                   i \notin tasks[threads[th].task].notification_ids
                   => notifications'[i] = notifications[i]
             /\ last_notified_at' = last_notified_at]_vars

\* A task failed, a task enqueued behind it was handed to the transport
\* afterwards, and the record the failed task did not name is still pending.
C14_Witness ==
    /\ Len(handed) >= 2
    /\ notifications[1].status = "failed"
    /\ notifications[2].status = "pending"
    /\ tasks[handed[1]].notification_ids = {1}
    /\ \E th \in 1..MaxThreads : threads[th].pc = "sending" /\ threads[th].task = handed[2]

(***************************************************************************)
(* Properties of the enrichment rate limiter.                              *)
(***************************************************************************)

\* C4: any two consecutive detail requests of one enrichment run, first
\* attempts and retries alike, are scheduled to start at least the minimum
\* interval apart.
C4_ScheduledStartsApart ==
    \A k \in 1..(Len(schedule) - 1) :
        schedule[k + 1] - schedule[k] >= RateLimitDelay

\* Two threads are at work, one of them on a retry, and three requests
\* have been scheduled.
C4_Witness ==
    /\ Len(schedule) >= 3
    /\ \E w1, w2 \in 1..MaxWorkers :
          /\ w1 # w2
          /\ workers[w1].attempt >= 1
          /\ workers[w1].pc \in {"sleep", "request"}
          /\ workers[w2].pc \in {"sleep", "request"}

(***************************************************************************)
(* Properties of the notifier.                                             *)
(***************************************************************************)

\* The records that a step sets to sent.
NewlySent ==
    {i \in DOMAIN notifications' :
        /\ notifications'[i].status = "sent"
        /\ (i \in DOMAIN notifications => notifications[i].status # "sent")}

\* The send to the record's user for the category of the record's job
\* returned True.
CoveredBySuccess(outcomes, i) ==
    outcomes[<<notifications'[i].user_id, jobs[notifications'[i].job_id].category_id>>]
        = "true"

\* C3: a record is set to sent only in a call in which the send that covers
\* it reported success; when that send returned False or raised, the record
\* does not become sent.
C3_SentOnlyAfterSuccess ==
    [][/\ \A outcomes \in SendOutcomes, dbs \in SweepDbOutcomes :
             SendPendingNotifications(outcomes, dbs)
             => \A i \in NewlySent : CoveredBySuccess(outcomes, i)
       /\ \A recent \in SUBSET DOMAIN jobs, outcomes \in SendOutcomes,
             done \in 0..Cardinality(Categories) :
             ProcessNewJobs(recent, outcomes, done)
             => \A i \in NewlySent : CoveredBySuccess(outcomes, i)]_vars

(***************************************************************************)
(* Properties of the table notifications.                                  *)
(***************************************************************************)

PolledIds == [k \in DOMAIN cycle_polled |-> cycle_polled[k].category_id]

\* C15 as stated: a polling cycle that is over has polled every category
\* exactly once, in sequence.
C15_EveryCycleCoversAll ==
    cycle_state \in {"done", "aborted"} => PolledIds = Ascending(Categories)

\* C15: in a polling cycle that could read the category list, the
\* categories polled so far and the categories still to come make up the
\* list, each category once and in sequence, whatever failed while a
\* category was handled, and the cycle is over only when none is left; a
\* cycle that could not read the list polls none.
C15_CycleCoversAllOnceListed ==
    /\ cycle_state \in {"running", "done"}
          => /\ PolledIds \o cycle_todo = Ascending(Categories)
             /\ (cycle_state = "done") = (cycle_todo = <<>>)
    /\ cycle_state = "aborted" => cycle_polled = <<>>

\* A cycle is over in which the fetch of the first category failed and the
\* second category was polled all the same.
C15_Witness ==
    /\ cycle_state = "done"
    /\ Len(cycle_polled) = 2
    /\ scrape_failures[cycle_polled[1].category_id] = 1
    /\ last_op.category_id = cycle_polled[2].category_id

(***************************************************************************)
(* Properties of the running application.                                  *)
(***************************************************************************)

\* Notification i exists and is pending.
IsPending(i) == i \in DOMAIN notifications /\ notifications[i].status = "pending"

\* C16: while the application is up, every task enqueued on the email queue
\* or on the chat queue is eventually taken off that queue by its worker,
\* and every notification such a task names eventually leaves pending.
C16_EnqueuedEventuallyHandled ==
    /\ \A n \in 1..MaxTasks :
          (app = "up" /\ n \in Range(queue))
             ~> (n \notin Range(queue) \/ app # "up")
    /\ (app = "up" /\ chat_queue # <<>>)
          ~> (chat_queue = <<>> \/ app # "up")
    /\ \A n \in 1..MaxTasks, i \in 1..MaxNotifications :
          (/\ app = "up"
           /\ n \in Range(queue)
           /\ i \in tasks[n].notification_ids
           /\ IsPending(i))
             ~> (~IsPending(i) \/ app # "up")

\* The transport calls in flight on the email channel, by calling thread.
EmailInFlight == {th \in 1..MaxThreads : threads[th].pc = "sending"}

\* C17: at most one transport call is in flight per channel, and each is made
\* by the channel's queue worker: the email queue's worker for an email, the
\* chat queue's worker for a chat message.
C17_SendsOnlyByQueueWorker ==
    /\ Cardinality(EmailInFlight) <= 1
    /\ handler = "telegram" => chat_worker_ref # 0

(***************************************************************************)
(* Properties of the run log and of the failure counter.                   *)
(***************************************************************************)

\* The step is a full-sync invocation for category c.
FullSyncStep(c) ==
    /\ listing_fetches' = listing_fetches + 1
    /\ last_op'.category_id = c

\* The rows the run log had are all still there, as they were.
LogsKept ==
    /\ Len(scraper_logs') >= Len(scraper_logs)
    /\ SubSeq(scraper_logs', 1, Len(scraper_logs)) = scraper_logs

\* C18 as stated: every full-sync invocation appends exactly one row to the
\* run log, on the success path and on each failure path, and no row is ever
\* modified or deleted.
C18_OneLogRowPerRun ==
    [][/\ LogsKept
       /\ \A c \in Categories :
             FullSyncStep(c) => Len(scraper_logs') = Len(scraper_logs) + 1]_vars

\* C18: every full-sync invocation whose log insert commits appends exactly
\* one row to the run log, for its category and with the outcome of its path;
\* one whose insert fails appends none; nothing else writes the run log, and
\* no row is ever modified or deleted.
C18_OneLogRowPerLoggedRun ==
    [][/\ LogsKept
       /\ \A c \in Categories :
             FullSyncStep(c) =>
                IF last_op'.logged
                THEN /\ Len(scraper_logs') = Len(scraper_logs) + 1
                     /\ scraper_logs'[Len(scraper_logs')].category_id = c
                     /\ (scraper_logs'[Len(scraper_logs')].status = "success")
                           = last_op'.fetched
                ELSE scraper_logs' = scraper_logs
       /\ (\A c \in Categories : ~FullSyncStep(c))
             => scraper_logs' = scraper_logs]_vars

\* A run on a failure path has added its row behind the row of a successful
\* run.
C18_Witness ==
    /\ last_op.logged
    /\ ~last_op.fetched
    /\ Len(scraper_logs) = 2
    /\ scraper_logs[1].status = "success"
    /\ scraper_logs[2].status = "blocked"

\* C19 as stated: a successful full-sync run sets the category's failure
\* counter to 0 and each failed run adds exactly 1, so that the counter is
\* the number of consecutive failed runs since the last successful one.
C19_CounterCountsFailedRuns ==
    [][\A c \in Categories :
          FullSyncStep(c) =>
             scrape_failures'[c] = IF last_op'.fetched THEN 0
                                   ELSE scrape_failures[c] + 1]_vars

\* C19: a full-sync run whose status update commits sets the category's
\* failure counter to 0 when it succeeded and adds exactly 1 when it failed;
\* a run whose status update fails leaves the counter as it was, and nothing
\* else changes a counter.
C19_CounterCountsRecordedRuns ==
    [][\A c \in Categories :
          /\ FullSyncStep(c) =>
                scrape_failures'[c] =
                   IF ~last_op'.updated THEN scrape_failures[c]
                   ELSE IF last_op'.fetched THEN 0
                   ELSE scrape_failures[c] + 1
          /\ ~FullSyncStep(c) => scrape_failures'[c] = scrape_failures[c]]_vars

\* Two failed runs in a row have been counted.
C19_Witness ==
    \E c \in Categories :
        /\ scrape_failures[c] = 2
        /\ last_op.category_id = c
        /\ last_op.updated
        /\ ~last_op.fetched

(***************************************************************************)
(* Deduplication across runs and inside one listing page.                  *)
(***************************************************************************)

\* The step is a full sync that fetched a listing page of pairwise different
\* rows and whose batch was not lost to a failure of the database itself: it
\* was committed, or it was rolled back on UNIQUE(url).
FetchedAndSaved ==
    /\ SyncStep
    /\ last_op'.fetched
    /\ Distinct(last_op'.rows) = last_op'.rows
    /\ \/ last_op'.committed
       \/ ViolatesUniqueUrl(jobs, StagedJobs(jobs, ParseRows(last_op'.rows)))

\* C20: after a full sync, every candidate of the fetched page is persisted
\* or matched by a persisted job (same title or same URL), and the
\* candidates of the page that share a title, and those that share a URL,
\* have one persisted job between them, whether the twin came in an earlier
\* run or stands on the same page.
C20_TwinsGiveOneItem ==
    [][FetchedAndSaved =>
          LET page == ParseRows(last_op'.rows)
          IN  \A k \in DOMAIN page :
                 /\ JobExistsInDb(jobs', page[k])
                 /\ Cardinality({i \in DOMAIN jobs' :
                       jobs'[i].content_hash = hash_content(page[k].title)}) <= 1
                 /\ Cardinality({i \in DOMAIN jobs' :
                       jobs'[i].url = page[k].url}) <= 1]_vars

(***************************************************************************)
(* The outcome logged for a failed listing fetch.                          *)
(***************************************************************************)

\* The step is a full sync whose listing fetch failed.
FetchFailedStep ==
    /\ listing_fetches' = listing_fetches + 1
    /\ last_op'.answer \in {"http429", "http_error", "timeout"}

\* C28: a full sync whose listing fetch is answered with HTTP 429 writes
\* "blocked" to the run log, one whose fetch fails in any other way writes
\* "error"; in both cases the row carries the count 0, it is the one row the
\* run adds when its insert commits, and table jobs is left as it was.
C28_FailedFetchClassified ==
    [][FetchFailedStep =>
          /\ jobs' = jobs
          /\ last_op'.new = <<>>
          /\ IF last_op'.logged
             THEN scraper_logs' = Append(scraper_logs,
                     [category_id |-> last_op'.category_id,
                      status |-> IF last_op'.answer = "http429"
                                 THEN "blocked" ELSE "error",
                      jobs_found |-> 0])
             ELSE scraper_logs' = scraper_logs]_vars

\* A run answered with HTTP 429 and a run that timed out have both been
\* logged, with different outcomes.
C28_Witness ==
    /\ Len(scraper_logs) = 2
    /\ scraper_logs[1].status = "blocked"
    /\ scraper_logs[2].status = "error"
    /\ last_op.answer = "timeout"
    /\ last_op.logged

(***************************************************************************)
(* Retries of the detail request.                                          *)
(***************************************************************************)

\* C29: a thread issues at most three detail requests for a job; a 429 on
\* the first attempt makes it sleep 2 s and one on the second attempt 4 s,
\* after which it goes for the same job again; a third 429 ends the job with
\* no rate, and the job's hiring_rate is then never set in this run.
C29_ThrottledRetries ==
    /\ [](\A w \in 1..MaxWorkers : workers[w].attempt + 1 <= 3)
    /\ [][\A w \in 1..MaxWorkers :
             /\ DetailRequest(w, "http429") =>
                   IF workers[w].attempt + 1 < 3
                   THEN /\ workers'[w].pc = "backoff"
                        /\ workers'[w].job = workers[w].job
                        /\ workers'[w].attempt = workers[w].attempt + 1
                        /\ workers'[w].wake =
                              clock + (IF workers[w].attempt = 0 THEN 2 ELSE 4)
                        /\ results' = results
                   ELSE /\ workers'[w].pc = "idle"
                        /\ results'[workers[w].job] = None
             /\ (workers[w].pc = "backoff" /\ workers'[w] # workers[w]) =>
                   /\ clock >= workers[w].wake
                   /\ workers'[w].pc = "lock"
                   /\ workers'[w].job = workers[w].job
                   /\ workers'[w].attempt = workers[w].attempt]_vars
    /\ [][\A k \in DOMAIN jobs :
             (EnrichCommit /\ results[k] = None)
                => jobs'[k].hiring_rate = jobs[k].hiring_rate]_vars

\* A thread stands before its third request for a job, after two 429.
C29_Witness ==
    \E w \in 1..MaxWorkers :
        /\ workers[w].attempt = 2
        /\ workers[w].pc = "request"
        /\ clock >= 6

\* C30: after a detail request that failed for a reason other than
\* throttling, on the first or the second attempt, the thread sleeps less
\* than it would after a 429 and then goes for the same job again.
C30_FailedRequestRetried ==
    [][\A w \in 1..MaxWorkers :
          (DetailRequest(w, "error") /\ workers[w].attempt + 1 < 3) =>
             /\ workers'[w].pc = "backoff"
             /\ workers'[w].job = workers[w].job
             /\ workers'[w].attempt = workers[w].attempt + 1
             /\ workers'[w].wake - clock < Backoff(workers[w].attempt)]_vars


\* The records a step adds to table notifications.
CreatedRecords == {i \in DOMAIN notifications' : i \notin DOMAIN notifications}

\* C22: a delivery record of the router, whose one channel is email, is
\* created only for a recipient that is verified, has receive_email set and
\* is not unsubscribed at the moment of the creation.
C22_RecordsOnlyForEligible ==
    [][\A i \in CreatedRecords :
          LET user == users[notifications'[i].user_id]
          IN  user.verified /\ user.receive_email /\ ~user.unsubscribed]_vars

\* C23: the router creates a record for a user and a job only if the user's
\* min_hiring_rate is null, or the job's hiring_rate is not null and at
\* least the user's minimum.
C23_RecordsPassTheFilter ==
    [][\A i \in CreatedRecords :
          LET minimum == users[notifications'[i].user_id].min_hiring_rate
              rate == jobs[notifications'[i].job_id].hiring_rate
          IN  \/ minimum = None
              \/ rate # None /\ rate[1] >= minimum[1]]_vars

\* C24: whatever routing operations have run, no two records name the same
\* user and job (the router's records carry one channel), and every record a
\* routing step creates is created pending: at the end of the step it is
\* pending, or sent by the send process_new_jobs makes after its commit.
C24_OneRecordPerPair ==
    /\ [](\A i, k \in DOMAIN notifications :
             (/\ notifications[i].user_id = notifications[k].user_id
              /\ notifications[i].job_id = notifications[k].job_id) => i = k)
    /\ [][\A i \in CreatedRecords :
             notifications'[i].status \in {"pending", "sent"}]_vars

\* Task t names a user that has unsubscribed or switched email off.
OptedOut(t) ==
    \E u \in tasks[t].user_ids : users[u].unsubscribed \/ ~users[u].receive_email

\* Task t is on the email queue.
Queued(t) == \E k \in DOMAIN queue : queue[k] = t

\* The worker has handed task t to the transport and is through with it.
Handled(t) ==
    /\ \E k \in DOMAIN handed : handed[k] = t
    /\ \A th \in 1..MaxThreads : threads[th].task # t

\* C25: a step that changes a user's flags leaves the queue, its tasks and
\* the records as they are; and a task that is queued when one of its users
\* has opted out is still handed to the transport and taken through the
\* write of its outcome.
C25_OptOutKeepsQueuedTasks ==
    /\ [][users' # users =>
            /\ queue' = queue /\ tasks' = tasks /\ threads' = threads
            /\ handed' = handed /\ notifications' = notifications]_vars
    /\ \A t \in 1..MaxTasks :
          (t \in DOMAIN tasks /\ Queued(t) /\ OptedOut(t)) ~> Handled(t)

\* A task of a user that has opted out has been sent and its outcome
\* written, while another task of an opted-out user waits on the queue.
C25_Witness ==
    \E t, s \in DOMAIN tasks :
        /\ Handled(t) /\ OptedOut(t)
        /\ \A i \in tasks[t].notification_ids : notifications[i].status # "pending"
        /\ Queued(s) /\ OptedOut(s)

\* The one user get_users_for_category returns for the category, if that
\* user takes email and has no minimum hiring rate.
OneEmailRecipient(category_id) ==
    LET found == GetUsersForCategory(category_id)
    IN  /\ Len(found) = 1
        /\ users[found[1]].receive_email
        /\ users[found[1]].min_hiring_rate = None

\* C26: when a pass of the polling cycle saves k new jobs from the full
\* scrape of a category that has exactly one recipient (verified, taking
\* email, no minimum rate), the pass creates exactly k pending records, for
\* that user and those jobs, and puts exactly one task on the email queue.
C26_OneTaskForNewJobs ==
    [][(/\ cycle_polled' # cycle_polled
        /\ last_op'.fetched
        /\ last_op'.new # <<>>
        /\ OneEmailRecipient(last_op'.category_id)) =>
            /\ Len(notifications') = Len(notifications) + Len(last_op'.new)
            /\ \A i \in CreatedRecords :
                  /\ notifications'[i].status = "pending"
                  /\ notifications'[i].user_id = GetUsersForCategory(last_op'.category_id)[1]
            /\ Len(tasks') = Len(tasks) + 1
            /\ queue' = Append(queue, Len(tasks'))]_vars

RECURSIVE Recipients(_)
\* The recipients the tasks of a sequence address, task after task.
Recipients(seq) ==
    IF seq = <<>> THEN <<>>
    ELSE (IF Head(seq).bcc = None THEN <<>> ELSE Head(seq).bcc[1])
             \o Recipients(Tail(seq))

\* C27: when n recipients have been dispatched with complete content and a
\* maximum batch size b, exactly ceil(n/b) email tasks have been created,
\* each for at most b recipients, and together they address the recipients
\* in their order, each once.
C27_BatchesCoverRecipients ==
    (/\ batch_todo = <<>>
     /\ \A k \in DOMAIN batch_calls :
           /\ batch_calls[k].content.dict
           /\ batch_calls[k].content.jobs # <<>>
           /\ batch_calls[k].content.notification_ids # <<>>) =>
        /\ Len(tasks) = (Len(batch_recipients) + batch_size - 1) \div batch_size
        /\ \A k \in DOMAIN tasks : Len(Recipients(<<tasks[k]>>)) <= batch_size
        /\ Recipients(tasks) = batch_recipients

\* The stored jobs that carry the title and the URL of a candidate.
ItemsOf(c) == {i \in DOMAIN jobs : jobs[i].title = c.title /\ jobs[i].url = c.url}

\* The records of a user for a job.
RecordsOf(u, i) ==
    {k \in DOMAIN notifications :
        notifications[k].user_id = u /\ notifications[k].job_id = i}

\* C21: when two overlapping passes have both synced the same page of a
\* category, every candidate of the page is stored as exactly one job, and
\* every user of the category has exactly one record for each such job.
C21_OverlapPersistsOnce ==
    (\A p \in Passes : overlap[p].pc = "done") =>
        \A c \in Range(ParseRows(overlap_page)) :
            /\ Cardinality(ItemsOf(c)) = 1
            /\ \A i \in ItemsOf(c), u \in Range(GetUsersForCategory(OverlapCategory)) :
                  Cardinality(RecordsOf(u, i)) = 1

(***************************************************************************)
(* Enrichment inside the sync run, the probe, persisted jobs.              *)
(***************************************************************************)

\* The step is a full sync that fetched the page and saved new jobs.
SavedNewStep ==
    /\ listing_fetches' = listing_fetches + 1
    /\ last_op'.fetched
    /\ last_op'.new # <<>>

\* C31: whatever enrichment obtained for the new jobs of a full sync, a rate
\* for each, for some or for none (as when the enrichment stage failed), the
\* row the run writes to the run log says "success" with the number of new
\* jobs, the counter it writes is 0, and every new job is in table jobs with
\* the rate obtained or with none, and is in the list returned to the caller.
C31_UnscoredRunSucceeds ==
    [][SavedNewStep =>
          /\ scraper_logs' =
                IF last_op'.logged
                THEN Append(scraper_logs, [category_id |-> last_op'.category_id,
                                           status |-> "success",
                                           jobs_found |-> Len(last_op'.new)])
                ELSE scraper_logs
          /\ last_op'.updated => scrape_failures'[last_op'.category_id] = 0
          /\ Range(last_op'.new) = DOMAIN jobs' \ DOMAIN jobs
          /\ \A i \in DOMAIN jobs' \ DOMAIN jobs : jobs'[i].hiring_rate \in Rates]_vars

\* A full sync has saved two new jobs, enrichment obtained a rate for one of
\* them only, and the run is logged as a success with two jobs.
C31_Witness ==
    /\ Len(last_op.new) = 2
    /\ jobs[last_op.new[1]].hiring_rate = None
    /\ jobs[last_op.new[2]].hiring_rate # None
    /\ scraper_logs[Len(scraper_logs)] =
          [category_id |-> last_op.category_id, status |-> "success", jobs_found |-> 2]

\* The threads inside extract_hiring_rate.
InFlight == {w \in 1..MaxWorkers : workers[w].pc = "request"}

\* The threads that hold a job.
Busy == {w \in 1..MaxWorkers : workers[w].job # 0}

TwinJobs == 2

twin_frame == <<sync_vars, queue_vars, rate_vars, cycle_vars, app_vars, user_vars, batch_vars, overlap_vars, pass_vars>>

\* enrich_jobs_with_hiring_rates is called: request_lock = time.time().
RunBegin(r) ==
    /\ runners[r].pc = "idle"
    /\ cursors' = [cursors EXCEPT ![r] = clock]
    /\ runners' = [runners EXCEPT ![r] = [pc |-> "lock", left |-> TwinJobs, wake |-> 0]]
    /\ UNCHANGED <<starts, twin_frame>>

\* The locked section of fetch_rate_with_backoff, on the cursor of its run.
RunLock(r) ==
    /\ runners[r].pc = "lock"
    /\ cursors' = [cursors EXCEPT ![r] = NextCursor(clock, cursors[r])]
    /\ starts' = Append(starts, [run |-> r, at |-> ScheduledStart(clock, cursors[r])])
    /\ runners' = [runners EXCEPT
                      ![r].pc = IF WaitTime(clock, cursors[r]) > 0
                                THEN "sleep" ELSE "request",
                      ![r].wake = ScheduledStart(clock, cursors[r])]
    /\ UNCHANGED twin_frame

\* time.sleep(wait_time) returns.
RunSleepEnd(r) ==
    /\ runners[r].pc = "sleep"
    /\ clock >= runners[r].wake
    /\ runners' = [runners EXCEPT ![r].pc = "request", ![r].wake = 0]
    /\ UNCHANGED <<cursors, starts, twin_frame>>

\* extract_hiring_rate returns; the thread takes the next job of the run.
RunRequest(r) ==
    /\ runners[r].pc = "request"
    /\ runners' = [runners EXCEPT
                      ![r].pc = IF runners[r].left > 1 THEN "lock" ELSE "done",
                      ![r].left = runners[r].left - 1]
    /\ UNCHANGED <<cursors, starts, twin_frame>>

\* A second passes.
TwinTick ==
    /\ clock < MaxTime
    /\ \E r \in 1..2 : runners[r].pc # "done"
    /\ clock' = clock + 1
    /\ UNCHANGED <<jobs, scraper_logs, scrape_failures, last_scraped_at, listing_fetches, last_op>>
    /\ UNCHANGED <<queue_vars, rate_vars, cycle_vars, app_vars, user_vars, batch_vars, overlap_vars, twin_vars, pass_vars>>

InitTwin ==
    /\ SyncAtRest /\ QueueAtRest /\ RateAtRest /\ CycleAtRest /\ AppAtRest
    /\ UsersAtRest /\ BatchAtRest /\ OverlapAtRest /\ TwinAtRest /\ PassAtRest

TwinNext ==
    \/ \E r \in 1..2 : RunBegin(r)
    \/ \E r \in 1..2 : RunLock(r)
    \/ \E r \in 1..2 : RunSleepEnd(r)
    \/ \E r \in 1..2 : RunRequest(r)
    \/ TwinTick

SpecTwin == InitTwin /\ [][TwinNext]_vars

\* C33: the minimum gap between detail requests holds process-wide: any two
\* detail requests, also of two enrichment runs that overlap in time, are
\* scheduled to start at least rate_limit_delay apart.
C33_ProcessWideGap ==
    \A k, l \in DOMAIN starts :
        k # l => \/ starts[k].at - starts[l].at >= RateLimitDelay
                 \/ starts[l].at - starts[k].at >= RateLimitDelay

(***************************************************************************)
(* One pass of run_scraper_job for a category whose poll saved new jobs,   *)
(* step by step: the enrichment run of scrape_category_with_logging, the   *)
(* re-read of the new jobs, the log row and the status, the call of        *)
(* process_new_jobs.                                                       *)
(***************************************************************************)

\* The category of the pass.
PassCategory == 1

\* Table jobs when save_new_jobs has returned: the new jobs of the pass.
PassJobs ==
    <<NewJobRow([title |-> "t1", url |-> "u1"], PassCategory),
      NewJobRow([title |-> "t2", url |-> "u2"], PassCategory)>>

\* A Job object outside a session: its id and the columns it was loaded with.
Detached(db_jobs, id) == [id |-> id, row |-> db_jobs[id]]

pass_frame == <<queue_vars, rate_vars, cycle_vars, app_vars, user_vars, batch_vars, overlap_vars, twin_vars>>

\* The loop over new_jobs after the enrichment if it re-read no object.
Refreshed_Stale(db_jobs, objects, read) == objects

\* The loop over new_jobs after the enrichment: each object is replaced by
\* the row re-read in a fresh session; a query that raises ends the loop,
\* read objects having been replaced, and is logged.
Refreshed(db_jobs, objects, read) ==
    [i \in DOMAIN objects |->
        IF i <= read THEN Detached(db_jobs, objects[i].id) ELSE objects[i]]

\* scrape_category_with_logging after enrich_jobs_with_hiring_rates has
\* returned: the re-read of new_jobs.
PassRefresh(read) ==
    /\ pass_pc = "enrich"
    /\ ~enriching
    /\ pass_jobs' = Refreshed(jobs, pass_jobs, read)
    /\ pass_pc' = "refreshed"
    /\ UNCHANGED <<routed, sync_vars, pass_frame>>

\* scrape_category_with_logging, its end: the "success" log row, the status
\* of the category, the return of new_jobs through poll_category.
PassReturn(log_ok, status_ok) ==
    /\ pass_pc = "refreshed"
    /\ scraper_logs' = LogScrapeResult(scraper_logs, PassCategory, "success",
                                       Len(pass_jobs), log_ok)
    /\ scrape_failures' = UpdateFailures(scrape_failures, PassCategory, TRUE, status_ok)
    /\ last_scraped_at' = UpdateLastScraped(last_scraped_at, PassCategory, clock, status_ok)
    /\ pass_pc' = "returned"
    /\ UNCHANGED <<jobs, clock, listing_fetches, last_op, pass_jobs, routed, pass_frame>>

\* run_scraper_job: process_new_jobs(new_jobs, category_id) is called with
\* the objects of the pass; the call raises TypeError, which the handler of
\* the loop logs.
PassNotify ==
    /\ pass_pc = "returned"
    /\ routed' = Some(pass_jobs)
    /\ pass_pc' = "done"
    /\ UNCHANGED <<pass_jobs, sync_vars, pass_frame>>

\* save_new_jobs has returned the new jobs, refreshed after its commit, and
\* enrich_jobs_with_hiring_rates has submitted every one of them.
PassInit ==
    /\ jobs = PassJobs
    /\ scraper_logs = <<>>
    /\ scrape_failures = [c \in Categories |-> 0]
    /\ last_scraped_at = [c \in Categories |-> None]
    /\ clock = 0
    /\ listing_fetches = 1
    /\ last_op = [seq |-> 0, op |-> "none", category_id |-> 1, probe |-> None,
                  fetched |-> FALSE, rows |-> <<>>, committed |-> FALSE,
                  new |-> <<>>, logged |-> FALSE, updated |-> FALSE,
                  answer |-> "none", repeat |-> FALSE, after_commit |-> FALSE]
    /\ request_lock = clock
    /\ workers = [w \in 1..MaxWorkers |-> IdleWorker]
    /\ todo = [k \in DOMAIN PassJobs |-> k]
    /\ results = [k \in DOMAIN PassJobs |-> None]
    /\ schedule = <<>>
    /\ enriching = TRUE
    /\ pass_pc = "enrich"
    /\ pass_jobs = [k \in DOMAIN PassJobs |-> Detached(PassJobs, k)]
    /\ routed = None

InitPass ==
    /\ PassInit /\ QueueAtRest /\ CycleAtRest /\ AppAtRest /\ UsersAtRest
    /\ BatchAtRest /\ OverlapAtRest /\ TwinAtRest

PassNext ==
    \/ RateNext
    \/ \E read \in 0..Len(pass_jobs) : PassRefresh(read)
    \/ \E log_ok \in DbOutcomes, status_ok \in DbOutcomes : PassReturn(log_ok, status_ok)
    \/ PassNotify

SpecPass == InitPass /\ [][PassNext]_vars

\* The enrichment run of the pass is over: no job is left submitted, every
\* thread is done, the rates obtained are in table jobs.
EnrichmentFinished ==
    /\ ~enriching
    /\ todo = <<>>
    /\ \A w \in 1..MaxWorkers : workers[w].pc = "idle"
    /\ \A k \in DOMAIN jobs : results[k] # None => jobs[k].hiring_rate = results[k]

EmptyProbePoll == last_op' # last_op /\ last_op'.op = "poll" /\ last_op'.probe = None

\* C35: a poll whose quick check yields no job (failed fetch, empty page,
\* first row without title or link) fetches no listing page in full and
\* leaves the jobs, the log rows, the last-scraped timestamps and the
\* failure counters as they were.
C35_EmptyProbeChangesNothing ==
    [][EmptyProbePoll =>
          /\ listing_fetches' = listing_fetches
          /\ ~last_op'.fetched
          /\ jobs' = jobs
          /\ scraper_logs' = scraper_logs
          /\ last_scraped_at' = last_scraped_at
          /\ scrape_failures' = scrape_failures]_vars

C35_Witness ==
    /\ last_op.op = "poll"
    /\ last_op.probe = None
    /\ jobs # <<>>
    /\ scraper_logs # <<>>
    /\ listing_fetches = 1
    /\ last_scraped_at[last_op.category_id] # None

\* C36: a row of table jobs stays: no step of a sync, with the enrichment
\* run inside it, deletes a row or changes a column of a row that was there
\* before the step; the rows the step adds carry the title, URL, content
\* hash and category of a candidate of the fetched page, and the enrichment
\* run of the step writes nothing but their hiring_rate.
C36_PersistedJobsStay ==
    [][/\ Len(jobs') >= Len(jobs)
       /\ \A i \in DOMAIN jobs : jobs'[i] = jobs[i]
       /\ \A i \in DOMAIN jobs' \ DOMAIN jobs :
             /\ i \in Range(last_op'.new)
             /\ \E k \in DOMAIN last_op'.rows :
                   [jobs'[i] EXCEPT !.hiring_rate = None] =
                       NewJobRow(last_op'.rows[k], last_op'.category_id)]_vars

C36_Witness ==
    /\ last_op.fetched
    /\ last_op.after_commit
    /\ \E k \in Range(last_op.new) : jobs[k].hiring_rate = Some(80)
    /\ \E i \in DOMAIN jobs \ Range(last_op.new) : jobs[i].hiring_rate = None

\* A step that appended a "success" row to scraper_logs.
LoggedSuccess ==
    /\ Len(scraper_logs') = Len(scraper_logs) + 1
    /\ scraper_logs'[Len(scraper_logs')].status = "success"

\* A step that wrote the success status of its category: counter reset.
ResetFailures ==
    /\ SyncStep
    /\ last_op'.fetched
    /\ last_op'.updated
    /\ scrape_failures'[last_op'.category_id] = 0

\* C37: a sync run writes a "success" log row, or resets the failure counter
\* of its category, only if its batch was not rolled back and every
\* candidate of the fetched page is persisted after the run.
C37_SuccessOnlyWhenPersisted ==
    [][(LoggedSuccess \/ ResetFailures) =>
          /\ last_op'.committed
          /\ \A k \in DOMAIN ParseRows(last_op'.rows) :
                JobExistsInDb(jobs', ParseRows(last_op'.rows)[k])]_vars

\* C38: a notification carries a sent time exactly when its status is sent.
C38_SentAtIffSent ==
    \A i \in DOMAIN notifications :
        notifications[i].sent_at # None <=> notifications[i].status = "sent"

(***************************************************************************)
(* The queue after stop() and a later start().                             *)
(***************************************************************************)

\* The queue has been restarted: the worker referenced is not the first one.
Restarted == worker_ref > 1

\* C39: after stop() and a later start(), the tasks in the queue are taken
\* and handed to the transport by the new worker alone, which hands over
\* every task it takes; a sentinel of the earlier stop() does not end the new
\* worker: it leaves its loop only when the stop event is set.
C39_NewWorkerTakesAll ==
    [][\A th \in 1..MaxThreads :
          /\ (Restarted /\ threads[th].pc = "get" /\ threads'[th].pc = "got")
                => th = worker_ref
          /\ (Restarted /\ threads[th].pc = "got" /\ threads'[th].pc = "sending")
                => (th = worker_ref /\ handed' = Append(handed, threads[th].task))
          /\ (threads[th].pc = "get" /\ threads'[th].pc # "get")
                => IF Head(queue) = Sentinel
                   THEN threads'[th].pc = "dead" /\ stop_event
                   ELSE threads'[th].pc = "got" /\ threads'[th].task = Head(queue)
          /\ (IsAlive(th) /\ threads'[th].pc = "dead") => stop_event]_vars

(***************************************************************************)
(* One call of EmailChannel.send.                                          *)
(***************************************************************************)

\* The content is a dict with a non-empty jobs list and a non-empty list of
\* notification ids.
Complete(content) ==
    content.dict /\ content.jobs # <<>> /\ content.notification_ids # <<>>

\* C40: a call of EmailChannel.send with complete content puts exactly one
\* task on the email queue and returns True; a call with content that is no
\* dict, or without jobs, or without notification ids puts nothing on the
\* queue and returns False.
C40_SendEnqueuesOneTask ==
    [][batch_calls' # batch_calls =>
          LET call == batch_calls'[Len(batch_calls')]
          IN  IF Complete(call.content)
              THEN /\ call.ok
                   /\ Len(tasks') = Len(tasks) + 1
                   /\ queue' = Append(queue, Len(tasks'))
              ELSE /\ ~call.ok
                   /\ tasks' = tasks
                   /\ queue' = queue]_vars
====
